---- MODULE Spec2Model ----
(***************************************************************************)
(* A model of the concept store of python-conceptlogic                     *)
(* (src/conceptLogic/conceptLogic/conceptLogic.py): one ConceptLogic with  *)
(* its two per-implementation indexes, the Concepts it has constructed,    *)
(* the ConceptIdentity objects with their contentCreationFunctions, and    *)
(* the owners that keep Concepts alive.  Every public operation is one     *)
(* action; the calls an operation makes (also the calls back into the      *)
(* store made by a contentCreationFunction) are part of that action.       *)
(***************************************************************************)
EXTENDS Integers, Sequences, FiniteSets, TLC

\* Number of Concept objects constructed in one behaviour.
MaxConcepts == 2

\* Depth of nested Python calls after which the interpreter raises
\* RecursionError (sys.getrecursionlimit(), scaled down).
MaxDepth == 6

NoContent == "None"
NoIdentity == "None"
NoConcept == 0

Contents == {"x", "y", "bad"}

Implementations == {"d1", "d2", "d3", "d4"}

\* The hooks of each ConceptImplementation: contentValid is the set of
\* contents the predicate accepts (or "None" when the hook is not given),
\* initializeConcept tells whether the hook is given, implementationSupported
\* is "None" (not given), "accept" or "reject", callConcept and
\* getConceptAttribute tell whether these hooks are given.
ConceptImplementation(d) ==
    CASE d = "d1" -> [contentValid |-> {"x", "y"}, hasContentValid |-> TRUE,
                      initializeConcept |-> TRUE, implementationSupported |-> "None",
                      callConcept |-> TRUE, getConceptAttribute |-> TRUE]
      [] d = "d2" -> [contentValid |-> Contents, hasContentValid |-> TRUE,
                      initializeConcept |-> FALSE, implementationSupported |-> "accept",
                      callConcept |-> FALSE, getConceptAttribute |-> FALSE]
      [] d = "d3" -> [contentValid |-> Contents, hasContentValid |-> TRUE,
                      initializeConcept |-> TRUE, implementationSupported |-> "reject",
                      callConcept |-> FALSE, getConceptAttribute |-> FALSE]
      [] d = "d4" -> [contentValid |-> {}, hasContentValid |-> FALSE,
                      initializeConcept |-> TRUE, implementationSupported |-> "None",
                      callConcept |-> FALSE, getConceptAttribute |-> FALSE]

Identities == {"A", "B", "P", "Q", "R", "S", "T", "U", "V"}

\* A ConceptIdentity: its implementation and its contentCreationFunction,
\* given as the calls the function makes into the store and the content it
\* returns (before / after the store is activated).
ConceptIdentity(i) ==
    CASE i = "A" -> [implementation |-> "d1",
                     calls |-> <<[call |-> "raw", identity |-> "B"]>>,
                     content |-> "x", contentActivated |-> "x"]
      [] i = "B" -> [implementation |-> "d1",
                     calls |-> <<[call |-> "raw", identity |-> "A"]>>,
                     content |-> "y", contentActivated |-> "y"]
      [] i = "P" -> [implementation |-> "d2", calls |-> <<>>,
                     content |-> "x", contentActivated |-> "x"]
      [] i = "Q" -> [implementation |-> "d2", calls |-> <<>>,
                     content |-> "x", contentActivated |-> "x"]
      [] i = "R" -> [implementation |-> "d2",
                     calls |-> <<[call |-> "rawread", identity |-> "P"]>>,
                     content |-> "y", contentActivated |-> "y"]
      [] i = "S" -> [implementation |-> "d2",
                     calls |-> <<[call |-> "get", identity |-> "S"]>>,
                     content |-> "bad", contentActivated |-> "bad"]
      [] i = "T" -> [implementation |-> "d3", calls |-> <<>>,
                     content |-> "x", contentActivated |-> "x"]
      [] i = "U" -> [implementation |-> "d4", calls |-> <<>>,
                     content |-> "x", contentActivated |-> "x"]
      [] i = "V" -> [implementation |-> "d1", calls |-> <<>>,
                     content |-> "x", contentActivated |-> "y"]

VARIABLES
    concepts,               \* the Concept objects constructed so far, by number
    live,                   \* the Concepts that have not been reclaimed
    implementations,        \* keys of _loadedConcepts / _identifiedConcepts, in insertion order
    loadedConcepts,         \* _loadedConcepts: implementation -> content -> Concept
    identifiedConcepts,     \* _identifiedConcepts: implementation -> identity -> Concept, in insertion order
    nonRawImplementations,  \* _nonRawImplementations
    activated,              \* _activated
    held,                   \* the Concepts an external owner holds a reference to
    returnedForContent,     \* per (implementation, content): the Concept getConceptFromContent
                            \* returned for it and that its caller holds since
    unsupported,            \* the implementations whose implementationSupported has
                            \* rejected the store so far
    descriptor,             \* the ConceptImplementation constructed last, with its outcome
    objects,                \* the Concepts of the store that exports and imports, by number
    exporter,               \* the position and the local variables of exportSemanticData
    importer,               \* the position and the local variables of importSemanticData
    last                    \* the operation performed last, with its outcome

vars == <<concepts, live, implementations, loadedConcepts, identifiedConcepts,
          nonRawImplementations, activated, held, returnedForContent, unsupported,
          descriptor, objects, exporter, importer, last>>

Range(f) == {f[k] : k \in DOMAIN f}

----------------------------------------------------------------------------
(* The identity-keyed dictionary: a sequence of (key, val) entries in       *)
(* insertion order.                                                         *)

\* Variant: the membership test never finds the identity.
IdInNever(dict, i) == \E k \in DOMAIN dict : dict[k].key = i /\ dict[k].key # i

IdIn(dict, i) == \E k \in DOMAIN dict : dict[k].key = i

IdGet(dict, i) ==
    IF IdIn(dict, i) THEN dict[CHOOSE k \in DOMAIN dict : dict[k].key = i].val
    ELSE NoConcept

\* Variant: the entry is not stored.
IdPutDropped(dict, i, c) == dict

IdPut(dict, i, c) ==
    IF IdIn(dict, i)
    THEN [k \in DOMAIN dict |-> IF dict[k].key = i THEN [key |-> i, val |-> c] ELSE dict[k]]
    ELSE Append(dict, [key |-> i, val |-> c])

----------------------------------------------------------------------------
(* The state an operation works on, and the outcome of a call.              *)

Store ==
    [concepts |-> concepts, live |-> live, implementations |-> implementations,
     loadedConcepts |-> loadedConcepts, identifiedConcepts |-> identifiedConcepts,
     nonRawImplementations |-> nonRawImplementations, activated |-> activated,
     unsupported |-> unsupported,
     factoryCalls |-> 0, running |-> <<>>, reentered |-> {}]

Return(s, c) == [s |-> s, ok |-> TRUE, ret |-> c, content |-> NoContent, err |-> "None"]

ReturnContent(s, v) == [s |-> s, ok |-> TRUE, ret |-> NoConcept, content |-> v, err |-> "None"]

Raise(s, e) == [s |-> s, ok |-> FALSE, ret |-> NoConcept, content |-> NoContent, err |-> e]

----------------------------------------------------------------------------
(* ConceptLogic._getImplementationDicts: creates the two dictionaries of an *)
(* implementation at its first use, unless the implementation rejects the   *)
(* store.                                                                   *)

\* Variant: the dictionaries are tested for emptiness instead of absence,
\* so that empty ones are replaced by new ones.
GetImplementationDictsWhenEmpty(s, d) ==
    IF /\ d \in Range(s.implementations)
       /\ s.identifiedConcepts[d] # <<>>
       /\ \E v \in Contents : s.loadedConcepts[d][v] # NoConcept
    THEN Return(s, NoConcept)
    ELSE IF ConceptImplementation(d).implementationSupported = "reject"
         THEN Raise(s, "UnsupportedImplementation")
         ELSE Return([s EXCEPT !.implementations = IF d \in Range(@) THEN @ ELSE Append(@, d),
                               !.identifiedConcepts[d] = <<>>,
                               !.loadedConcepts[d] = [v \in Contents |-> NoConcept]],
                     NoConcept)

\* Variant: the dictionaries are created before implementationSupported is
\* asked.
GetImplementationDictsCreatedFirst(s, d) ==
    IF d \in Range(s.implementations)
    THEN Return(s, NoConcept)
    ELSE IF ConceptImplementation(d).implementationSupported = "reject"
         THEN Raise([s EXCEPT !.implementations = Append(@, d),
                              !.unsupported = @ \cup {d}],
                    "UnsupportedImplementation")
         ELSE Return([s EXCEPT !.implementations = Append(@, d)], NoConcept)

GetImplementationDicts(s, d) ==
    IF d \in Range(s.implementations)
    THEN Return(s, NoConcept)
    ELSE IF ConceptImplementation(d).implementationSupported = "reject"
         THEN Raise([s EXCEPT !.unsupported = @ \cup {d}], "UnsupportedImplementation")
         ELSE Return([s EXCEPT !.implementations = Append(@, d)], NoConcept)

(* Concept.__init__: the object is allocated, entered in the identity       *)
(* dictionary when it has an identity, and, unless raw, entered in the      *)
(* content dictionary and initialized.  A raise leaves the object behind    *)
(* with whatever entries were made before it.                               *)

\* Variant: the initializeConcept hook is not called.
InitializeConceptSkipped(s, c) == s

(* Lines 322-323 (and 144-145): the initializeConcept hook of the           *)
(* implementation, when given, is called with the Concept.                  *)
InitializeConcept(s, c) ==
    IF ConceptImplementation(s.concepts[c].implementation).initializeConcept
    THEN [s EXCEPT !.concepts[c].initialized = @ + 1]
    ELSE s

\* Variant: the content is cleared for every Concept, not only for a raw one.
ConceptInitClearsContent(s, content, d, i, raw) ==
    LET c  == Len(s.concepts) + 1
        s1 == [s EXCEPT !.concepts = Append(@, [implementation |-> d, identity |-> i,
                                                 content |-> NoContent, raw |-> raw,
                                                 initialized |-> 0]),
                        !.live = @ \cup {c}]
        s2 == IF i # NoIdentity
              THEN [s1 EXCEPT !.identifiedConcepts[d] = IdPut(@, i, c)]
              ELSE s1
        s4 == [s2 EXCEPT !.loadedConcepts[d][content] = c]
        s5 == InitializeConcept(s4, c)
    IN  IF i # NoIdentity /\ IdIn(s1.identifiedConcepts[d], i)
        THEN Raise(s1, "DuplicateIdentity")
        ELSE IF raw
             THEN IF i = NoIdentity
                  THEN Raise(s2, "RawWithoutIdentity")
                  ELSE Return(s2, c)
             ELSE IF s2.loadedConcepts[d][content] # NoConcept
                  THEN Raise(s2, "DuplicateContent")
                  ELSE Return(s5, c)

ConceptInit(s, content, d, i, raw) ==
    LET c  == Len(s.concepts) + 1
        s1 == [s EXCEPT !.concepts = Append(@, [implementation |-> d, identity |-> i,
                                                 content |-> content, raw |-> raw,
                                                 initialized |-> 0]),
                        !.live = @ \cup {c}]
        s2 == IF i # NoIdentity
              THEN [s1 EXCEPT !.identifiedConcepts[d] = IdPut(@, i, c)]
              ELSE s1
        s3 == [s2 EXCEPT !.concepts[c].content = NoContent]
        s4 == [s2 EXCEPT !.loadedConcepts[d][content] = c]
        s5 == InitializeConcept(s4, c)
    IN  IF i # NoIdentity /\ IdIn(s1.identifiedConcepts[d], i)
        THEN Raise(s1, "DuplicateIdentity")
        ELSE IF raw
             THEN IF i = NoIdentity
                  THEN Raise(s2, "RawWithoutIdentity")
                  ELSE Return(s3, c)
             ELSE IF s2.loadedConcepts[d][content] # NoConcept
                  THEN Raise(s2, "DuplicateContent")
                  ELSE Return(s5, c)

(* A call of a method of the store, of the content property of a Concept   *)
(* or of a contentCreationFunction.  Calls nest: a contentCreationFunction  *)
(* calls back into the store.  The interpreter raises RecursionError when   *)
(* the calls nest deeper than its recursion limit.                          *)
RECURSIVE Call(_, _, _, _)
RECURSIVE RunCalls(_, _, _, _)

\* One call made by a contentCreationFunction: getConceptFromIdentity ("get"),
\* getRawConceptFromIdentity ("raw"), or the latter followed by a read of the
\* content of the Concept obtained ("rawread").
ReadObtained(got, call, depth) ==
    IF call.call = "rawread" /\ got.ok
    THEN Call(got.s, "content", got.ret, depth + 1)
    ELSE got

OneCall(s, call, depth) ==
    IF call.call = "get"
    THEN Call(s, "getConceptFromIdentity", call.identity, depth + 1)
    ELSE ReadObtained(Call(s, "getRawConceptFromIdentity", call.identity, depth + 1),
                      call, depth)

NextCall(r, calls, k, depth) ==
    IF r.ok THEN RunCalls(r.s, calls, k + 1, depth) ELSE r

(* The calls a contentCreationFunction makes into the store, in order.      *)
RunCalls(s, calls, k, depth) ==
    IF k > Len(calls)
    THEN Return(s, NoConcept)
    ELSE NextCall(OneCall(s, calls[k], depth), calls, k, depth)

\* The content a contentCreationFunction returns after its calls.
CreatedContent(r, i) ==
    IF ~r.ok
    THEN r
    ELSE ReturnContent([r.s EXCEPT !.running = SubSeq(@, 1, Len(@) - 1)],
                       IF r.s.activated
                       THEN ConceptIdentity(i).contentActivated
                       ELSE ConceptIdentity(i).content)

(* conceptIdentity.contentCreationFunction(store).                          *)
ContentCreationFunction(s, i, depth) ==
    CreatedContent(
        RunCalls([s EXCEPT !.factoryCalls = @ + 1,
                           !.reentered = IF i \in Range(s.running) THEN @ \cup {i} ELSE @,
                           !.running = Append(@, i)],
                 ConceptIdentity(i).calls, 1, depth),
        i)

\* Lines 137-141: the content the function returned is stored in the raw
\* Concept and the Concept is marked as not raw; then the local variable
\* `content`, which is not bound on this path, is read.
StoreLoadedContent(f, c) ==
    IF ~f.ok
    THEN f
    ELSE Raise([f.s EXCEPT !.concepts[c].content = f.content, !.concepts[c].raw = FALSE],
               "UnboundLocalError")

\* Variant: a Concept found under the identity is loaded again even when it
\* is not raw.
LoadFoundConceptAlways(s, c, i, depth) ==
    StoreLoadedContent(Call(s, "contentCreationFunction", i, depth + 1), c)

\* Lines 131-145: the Concept c found under the identity i is returned when
\* it is not raw, and loaded otherwise.
LoadFoundConcept(s, c, i, depth) ==
    IF ~s.concepts[c].raw
    THEN Return(s, c)
    ELSE StoreLoadedContent(Call(s, "contentCreationFunction", i, depth + 1), c)

\* Variant: a new Concept is constructed also when a Concept has the created
\* content.
IdentifyOrConstructAlwaysNew(f, d, i) ==
    IF ~f.ok
    THEN f
    ELSE ConceptInit(f.s, f.content, d, i, FALSE)

\* Lines 149-159: a Concept that has the created content gets the identity;
\* without such a Concept a new one is constructed.
IdentifyOrConstruct(f, d, i) ==
    IF ~f.ok
    THEN f
    ELSE IF f.s.loadedConcepts[d][f.content] # NoConcept
         THEN Return([f.s EXCEPT
                         !.concepts[f.s.loadedConcepts[d][f.content]].identity = i,
                         !.identifiedConcepts[d] =
                             IdPut(@, i, f.s.loadedConcepts[d][f.content])],
                     f.s.loadedConcepts[d][f.content])
         ELSE ConceptInit(f.s, f.content, d, i, FALSE)

\* Lines 130-159, with the dictionaries of the implementation obtained.
GetConceptFromIdentityIn(g, d, i, depth) ==
    IF ~g.ok
    THEN g
    ELSE IF IdIn(g.s.identifiedConcepts[d], i)
         THEN LoadFoundConcept(g.s, IdGet(g.s.identifiedConcepts[d], i), i, depth)
         ELSE IdentifyOrConstruct(Call(g.s, "contentCreationFunction", i, depth + 1), d, i)

(* ConceptLogic.getConceptFromIdentity.                                     *)
GetConceptFromIdentity(s, i, depth) ==
    GetConceptFromIdentityIn(GetImplementationDicts(s, ConceptIdentity(i).implementation),
                             ConceptIdentity(i).implementation, i, depth)

\* Variant: an identity without Concept always gets a raw Concept, also
\* when the store is activated.
RawOrLoadedConceptAlwaysRaw(s, d, i, depth) ==
    ConceptInit(s, NoContent, d, i, TRUE)

\* Variant: the test is whether the content dictionary of the implementation
\* holds a Concept, not whether the implementation has a content dictionary.
RawOrLoadedConceptWhenLoaded(s, d, i, depth) ==
    IF (\E v \in Contents : s.loadedConcepts[d][v] # NoConcept) \/ s.activated
    THEN Call(s, "getConceptFromIdentity", i, depth + 1)
    ELSE ConceptInit(s, NoContent, d, i, TRUE)

\* Lines 171-175: a loaded Concept when the implementation has an entry in
\* _loadedConcepts or the store is activated, a new raw Concept otherwise.
RawOrLoadedConcept(s, d, i, depth) ==
    IF d \in Range(s.implementations) \/ s.activated
    THEN Call(s, "getConceptFromIdentity", i, depth + 1)
    ELSE ConceptInit(s, NoContent, d, i, TRUE)

\* Variant: the Concept found for the identity is loaded before it is
\* returned.
GetRawConceptFromIdentityInLoads(g, d, i, depth) ==
    IF ~g.ok
    THEN g
    ELSE IF IdIn(g.s.identifiedConcepts[d], i)
         THEN Call(g.s, "getConceptFromIdentity", i, depth + 1)
         ELSE RawOrLoadedConcept(g.s, d, i, depth)

\* Lines 168-175, with the dictionaries of the implementation obtained.
GetRawConceptFromIdentityIn(g, d, i, depth) ==
    IF ~g.ok
    THEN g
    ELSE IF IdIn(g.s.identifiedConcepts[d], i)
         THEN Return(g.s, IdGet(g.s.identifiedConcepts[d], i))
         ELSE RawOrLoadedConcept(g.s, d, i, depth)

(* ConceptLogic.getRawConceptFromIdentity.                                  *)
GetRawConceptFromIdentity(s, i, depth) ==
    GetRawConceptFromIdentityIn(GetImplementationDicts(s, ConceptIdentity(i).implementation),
                                ConceptIdentity(i).implementation, i, depth)

\* The value of the content property once a raw Concept has been loaded.
ContentAfterLoad(r, c) ==
    IF ~r.ok THEN r ELSE ReturnContent(r.s, r.s.concepts[c].content)

(* Concept.content: a raw Concept is loaded through its identity first.     *)
ContentOf(s, c, depth) ==
    IF s.concepts[c].raw
    THEN ContentAfterLoad(Call(s, "getConceptFromIdentity", s.concepts[c].identity, depth + 1), c)
    ELSE ReturnContent(s, s.concepts[c].content)

Call(s, method, argument, depth) ==
    IF depth > MaxDepth
    THEN Raise(s, "RecursionError")
    ELSE CASE method = "getConceptFromIdentity" -> GetConceptFromIdentity(s, argument, depth)
           [] method = "getRawConceptFromIdentity" -> GetRawConceptFromIdentity(s, argument, depth)
           [] method = "content" -> ContentOf(s, argument, depth)
           [] method = "contentCreationFunction" -> ContentCreationFunction(s, argument, depth)

RECURSIVE LoadIdentified(_, _, _, _, _)

LoadNextIdentified(r, d, k, size, depth) ==
    IF ~r.ok THEN r ELSE LoadIdentified(r.s, d, k + 1, size, depth)

(* Lines 101-102, the loop of getConceptFromContent over the keys of the    *)
(* identity dictionary of d: the iterator raises when the dictionary        *)
(* changed size.                                                            *)
LoadIdentified(s, d, k, size, depth) ==
    IF Len(s.identifiedConcepts[d]) # size
    THEN Raise(s, "RuntimeError")
    ELSE IF k > size
         THEN Return(s, NoConcept)
         ELSE LoadNextIdentified(
                  Call(s, "getConceptFromIdentity", s.identifiedConcepts[d][k].key, depth + 1),
                  d, k, size, depth)

\* Lines 104-108: the Concept that has the content, or else a new one.
FindOrConstruct(s, d, content) ==
    IF s.loadedConcepts[d][content] # NoConcept
    THEN Return(s, s.loadedConcepts[d][content])
    ELSE ConceptInit(s, content, d, NoIdentity, FALSE)

\* Lines 103-108, after the loop over the identified Concepts.
AfterLoadIdentified(l, d, content) ==
    IF ~l.ok
    THEN l
    ELSE FindOrConstruct([l.s EXCEPT !.nonRawImplementations = @ \cup {d}], d, content)

\* Lines 98-108, with the dictionaries of the implementation obtained.
GetConceptFromContentIn(g, d, content, depth) ==
    IF ~g.ok
    THEN g
    ELSE IF d \in g.s.nonRawImplementations
         THEN FindOrConstruct(g.s, d, content)
         ELSE AfterLoadIdentified(
                  LoadIdentified(g.s, d, 1, Len(g.s.identifiedConcepts[d]), depth),
                  d, content)

\* Variant: the content is validated after the dictionaries of the
\* implementation were obtained.
GetConceptFromContentValidatesLate(s, d, content, depth) ==
    IF ~ConceptImplementation(d).hasContentValid
    THEN Raise(s, "TypeError")
    ELSE IF content \notin ConceptImplementation(d).contentValid
         THEN Raise(GetImplementationDicts(s, d).s, "InvalidContent")
         ELSE GetConceptFromContentIn(GetImplementationDicts(s, d), d, content, depth)

(* ConceptLogic.getConceptFromContent.                                      *)
GetConceptFromContent(s, d, content, depth) ==
    IF ~ConceptImplementation(d).hasContentValid
    THEN Raise(s, "TypeError")
    ELSE IF content \notin ConceptImplementation(d).contentValid
         THEN Raise(s, "InvalidContent")
         ELSE GetConceptFromContentIn(GetImplementationDicts(s, d), d, content, depth)

RECURSIVE ActivateConcepts(_, _, _, _, _)
RECURSIVE ActivateImplementations(_, _, _, _)

ActivateNextConcept(r, d, k, size, depth) ==
    IF ~r.ok THEN r ELSE ActivateConcepts(r.s, d, k + 1, size, depth)

(* Lines 278-280, the inner loop of activate over the items of one identity *)
(* dictionary.                                                              *)
ActivateConcepts(s, d, k, size, depth) ==
    IF Len(s.identifiedConcepts[d]) # size
    THEN Raise(s, "RuntimeError")
    ELSE IF k > size
         THEN Return(s, NoConcept)
         ELSE ActivateNextConcept(
                  IF s.concepts[s.identifiedConcepts[d][k].val].raw
                  THEN Call(s, "getConceptFromIdentity", s.identifiedConcepts[d][k].key, depth + 1)
                  ELSE Return(s, NoConcept),
                  d, k, size, depth)

ActivateNextImplementation(r, k, size, depth) ==
    IF ~r.ok THEN r ELSE ActivateImplementations(r.s, k + 1, size, depth)

(* Line 277, the outer loop of activate over the items of                   *)
(* _identifiedConcepts.                                                     *)
ActivateImplementations(s, k, size, depth) ==
    IF Len(s.implementations) # size
    THEN Raise(s, "RuntimeError")
    ELSE IF k > size
         THEN Return(s, NoConcept)
         ELSE ActivateNextImplementation(
                  ActivateConcepts(s, s.implementations[k], 1,
                                   Len(s.identifiedConcepts[s.implementations[k]]), depth),
                  k, size, depth)

\* Line 281: the store is activated when the loops have ended normally.
SetActivated(r) ==
    IF ~r.ok THEN r ELSE Return([r.s EXCEPT !.activated = TRUE], NoConcept)

\* Variant: activate on an activated store clears the flag instead of
\* returning at once.
ActivateDeactivates(s, depth) ==
    IF s.activated
    THEN Return([s EXCEPT !.activated = FALSE], NoConcept)
    ELSE SetActivated(ActivateImplementations(s, 1, Len(s.implementations), depth))

(* ConceptLogic.activate.                                                   *)
Activate(s, depth) ==
    IF s.activated
    THEN Return(s, NoConcept)
    ELSE SetActivated(ActivateImplementations(s, 1, Len(s.implementations), depth))

----------------------------------------------------------------------------
(* The operations of the store and of its users.                            *)

NoOperation ==
    [op |-> "none", implementation |-> "None", content |-> NoContent,
     identity |-> NoIdentity, concept |-> NoConcept, ok |-> TRUE,
     ret |-> NoConcept, value |-> NoContent, err |-> "None",
     factoryCalls |-> 0, reentered |-> {}, heldBefore |-> NoConcept,
     unsupportedBefore |-> {}]

Outcome(r) ==
    [NoOperation EXCEPT !.ok = r.ok, !.ret = r.ret, !.value = r.content, !.err = r.err,
                        !.factoryCalls = r.s.factoryCalls, !.reentered = r.s.reentered,
                        !.unsupportedBefore = unsupported]

\* The store after a call; the caller holds the Concept that was returned.
Commit(r) ==
    /\ Len(r.s.concepts) <= MaxConcepts
    /\ concepts' = r.s.concepts
    /\ live' = r.s.live
    /\ implementations' = r.s.implementations
    /\ loadedConcepts' = r.s.loadedConcepts
    /\ identifiedConcepts' = r.s.identifiedConcepts
    /\ nonRawImplementations' = r.s.nonRawImplementations
    /\ activated' = r.s.activated
    /\ held' = IF r.ok /\ r.ret # NoConcept THEN held \cup {r.ret} ELSE held
    /\ unsupported' = r.s.unsupported
    /\ UNCHANGED <<descriptor, objects, exporter, importer>>

\* The callbacks ConceptImplementation.__init__ takes; each is given or None.
Callbacks ==
    {"getContentFromData", "getDataFromContent", "getConnectionsFromContent",
     "getContentFromConnections", "contentValid", "initializeConcept",
     "implementationSupported", "getConceptAttribute", "callConcept", "reprConcept"}

NoDescriptor == [op |-> "none", given |-> {}, ok |-> TRUE, err |-> "None"]

\* Variant: the test that at least one pair is given is missing.
ConceptImplementationInitPairsOnly(given) ==
    IF ("getContentFromData" \notin given) # ("getDataFromContent" \notin given)
    THEN [op |-> "ConceptImplementation", given |-> given, ok |-> FALSE,
          err |-> "DataPairIncomplete"]
    ELSE IF ("getContentFromConnections" \notin given) # ("getConnectionsFromContent" \notin given)
         THEN [op |-> "ConceptImplementation", given |-> given, ok |-> FALSE,
               err |-> "ConnectionsPairIncomplete"]
         ELSE [op |-> "ConceptImplementation", given |-> given, ok |-> TRUE,
               err |-> "None"]

(* ConceptImplementation.__init__ with the callbacks in `given` passed and   *)
(* the others left None: the three tests of lines 423-428, in their order.  *)
ConceptImplementationInit(given) ==
    IF ("getContentFromData" \notin given) # ("getDataFromContent" \notin given)
    THEN [op |-> "ConceptImplementation", given |-> given, ok |-> FALSE,
          err |-> "DataPairIncomplete"]
    ELSE IF ("getContentFromConnections" \notin given) # ("getConnectionsFromContent" \notin given)
         THEN [op |-> "ConceptImplementation", given |-> given, ok |-> FALSE,
               err |-> "ConnectionsPairIncomplete"]
         ELSE IF "getContentFromData" \notin given /\ "getContentFromConnections" \notin given
              THEN [op |-> "ConceptImplementation", given |-> given, ok |-> FALSE,
                    err |-> "NoPair"]
              ELSE [op |-> "ConceptImplementation", given |-> given, ok |-> TRUE,
                    err |-> "None"]

\* The store after ConceptLogic.__init__ (lines 57-69), with no Concept held.
StoreInit ==
    /\ concepts = <<>>
    /\ live = {}
    /\ implementations = <<>>
    /\ loadedConcepts = [d \in Implementations |-> [v \in Contents |-> NoConcept]]
    /\ identifiedConcepts = [d \in Implementations |-> <<>>]
    /\ nonRawImplementations = {}
    /\ activated = FALSE
    /\ held = {}
    /\ returnedForContent = [d \in Implementations |-> [v \in Contents |-> NoConcept]]
    /\ unsupported = {}
    /\ descriptor = NoDescriptor
    /\ last = NoOperation

----------------------------------------------------------------------------
(* Semantic data.  exportSemanticData and importSemanticData work on a     *)
(* store whose Concepts are data Concepts (NumberConcept, IdentityConcept) *)
(* and constructed Concepts (SetConcept).  A Concept is a number, objects  *)
(* gives its implementation and content: the value of a data Concept, the  *)
(* member Concepts of a SetConcept.                                        *)

\* Number of reference triples of a SemanticData given to importSemanticData.
MaxTriples == 3

\* Number of member Concepts of a SetConcept a user constructs.
MaxMembers == 1

\* Number of Concepts a user constructs before exportSemanticData.
MaxObjects == 2

NoReference == -1

NumberConcept(n) == [implementation |-> "Number", value |-> n, members |-> {}]

IdentityConcept(b) == [implementation |-> "Identity", value |-> b, members |-> {}]

SetConcept(m) == [implementation |-> "Set", value |-> 0, members |-> m]

\* A Concept of a ConceptImplementation constructed with both pairs of
\* functions: the connections of SetConcept and a byte representation.
CodedSetConcept(m) == [implementation |-> "CodedSet", value |-> 0, members |-> m]

\* The predicates of the connections of a SetConcept.
hasSetCount == IdentityConcept(1)

hasSetEntry == IdentityConcept(2)

\* getDataFromContent is given for the data implementations and for the
\* implementation with both pairs of functions.
HasDataCodec(d) == d \in {"Number", "Identity", "CodedSet"}

\* getConnectionsFromContent is given.
HasConnectionsCodec(d) == d \in {"Set", "CodedSet"}

\* The members of a content in ascending order.
SortedMembers(m) ==
    CHOOSE q \in [1..Cardinality(m) -> m] :
        \A j \in 1..Cardinality(m), k \in 1..Cardinality(m) : j < k => q[j] < q[k]

\* getDataFromContent: NumberConcept encodes the decimal text of the number
\* (one digit here), IdentityConcept has bytes as content.
GetDataFromContent(o) ==
    IF o.implementation = "Number"
    THEN <<48 + o.value>>
    ELSE IF o.implementation = "CodedSet"
         THEN SortedMembers(o.members)
         ELSE <<o.value>>

\* getContentFromData: NumberConcept parses the decimal text.
GetContentFromData(d, data) ==
    IF d = "Number"
    THEN NumberConcept(data[1] - 48)
    ELSE IF d = "CodedSet"
         THEN CodedSetConcept(Range(data))
         ELSE IdentityConcept(data[1])

\* Variant: a Concept is constructed also when the store has one with the
\* content.
GetConceptAlwaysNew(objs, o) ==
    [objects |-> Append(objs, o), concept |-> Len(objs) + 1]

\* getConceptFromContent for a valid content on an activated store: the
\* Concept the content dictionary holds for the content, or a new one.
GetConcept(objs, o) ==
    IF \E c \in DOMAIN objs : objs[c] = o
    THEN [objects |-> objs, concept |-> CHOOSE c \in DOMAIN objs : objs[c] = o]
    ELSE [objects |-> Append(objs, o), concept |-> Len(objs) + 1]

\* getConceptFromData: the content is decoded, then looked up.
GetConceptFromData(objs, d, data) == GetConcept(objs, GetContentFromData(d, data))

Sufficient(o) == [ok |-> TRUE, err |-> "None", content |-> o]

NotSufficient == [ok |-> FALSE, err |-> "NotSufficient", content |-> SetConcept({})]

NotValid == [ok |-> FALSE, err |-> "NotValid", content |-> SetConcept({})]

\* The objects z of the connections (None, connectionType, z).
CollectedResults(objs, connectionType, semanticConnections) ==
    {x[3] : x \in {y \in semanticConnections :
                      /\ y[1] = NoConcept
                      /\ y[2] # NoConcept
                      /\ objs[y[2]] = connectionType}}

(* SetConcept.getContentFromConnections with readDistinctConnections:      *)
(* exactly one hasSetCount connection, to a NumberConcept, and as many     *)
(* hasSetEntry connections as it counts; fewer connections than expected   *)
(* are not sufficient, more are not valid.                                 *)
SetGetContentFromConnections(objs, semanticConnections) ==
    LET counts  == CollectedResults(objs, hasSetCount, semanticConnections)
        entries == CollectedResults(objs, hasSetEntry, semanticConnections)
        countConcept == CHOOSE c \in counts : TRUE
    IN  IF Cardinality(counts) < 1
        THEN NotSufficient
        ELSE IF Cardinality(counts) > 1
             THEN NotValid
             ELSE IF objs[countConcept].implementation # "Number"
                  THEN NotValid
                  ELSE IF Cardinality(entries) < objs[countConcept].value
                       THEN NotSufficient
                       ELSE IF Cardinality(entries) > objs[countConcept].value
                            THEN NotValid
                            ELSE Sufficient(SetConcept(entries))

\* The Concept of the resolved content, or the failure of the resolver.
ConceptOfResolved(objs, r) ==
    IF r.ok
    THEN [ok |-> TRUE, err |-> "None", objects |-> GetConcept(objs, r.content).objects,
          concept |-> GetConcept(objs, r.content).concept]
    ELSE [ok |-> FALSE, err |-> r.err, objects |-> objs, concept |-> NoConcept]

(* ConceptLogic.getConceptFromSemanticConnections.                          *)
GetConceptFromSemanticConnections(objs, semanticConnections) ==
    ConceptOfResolved(objs, SetGetContentFromConnections(objs, semanticConnections))

----------------------------------------------------------------------------
(* importSemanticData.                                                      *)

NoOutcome == [returned |-> FALSE, references |-> {}]

NoImport ==
    [phase |-> "none", bytes |-> <<>>, triples |-> {}, conceptsByReference |-> <<>>,
     unimportedReferences |-> {}, untestedReferences |-> {},
     reference |-> NoReference, semanticConnections |-> {},
     outcome |-> "None", err |-> "None",
     reconstructed |-> {}, tested |-> {}, retried |-> FALSE,
     run |-> 1, first |-> NoOutcome, fresh |-> FALSE]

\* The references of a set of triples.
ReferencesOf(triples) == {t[k] : t \in triples, k \in 1..3} \ {NoReference}

\* importSemanticData is called with the SemanticData (bytes, triples):
\* lines 233-239 set the local variables up.
Called(bytes, triples) ==
    [NoImport EXCEPT !.phase = "bytes", !.bytes = bytes, !.triples = triples,
                     !.unimportedReferences = ReferencesOf(triples)]

Least(S) == CHOOSE r \in S : \A q \in S : r <= q

\* Variant: the reference with byte data stays unimported.
ImportedByteStaysUnimported(imp, reference, g) ==
    [imp EXCEPT !.conceptsByReference = @ @@ (reference :> g.concept)]

\* Lines 241-244, one turn: the next reference with byte data gets the
\* Concept of the data (the entries of the dictionary are taken in
\* ascending order) and is no longer unimported.
ImportedByte(imp, reference, g) ==
    [imp EXCEPT !.conceptsByReference = @ @@ (reference :> g.concept),
                !.unimportedReferences = @ \ {reference}]

\* Variant: only the triples that have the reference as subject are taken.
SemanticConnectionReferencesOfSubject(triples, reference) ==
    {<<NoReference, t[2], t[3]>> : t \in {u \in triples : u[1] = reference}}

\* Lines 250-253: the triples of the reference, with None for the reference.
SemanticConnectionReferences(triples, reference) ==
    {<<NoReference, t[2], t[3]>> : t \in {u \in triples : u[1] = reference}}
    \cup {<<t[1], NoReference, t[3]>> : t \in {u \in triples : u[2] = reference}}
    \cup {<<t[1], t[2], NoReference>> : t \in {u \in triples : u[3] = reference}}

ConceptOrNone(byReference, r) == IF r = NoReference THEN NoConcept ELSE byReference[r]

\* Lines 254-258: the connections whose other references have a Concept.
SemanticConnections(connectionReferences, byReference) ==
    {<<ConceptOrNone(byReference, x[1]), ConceptOrNone(byReference, x[2]),
       ConceptOrNone(byReference, x[3])>> :
        x \in {y \in connectionReferences :
                  \A k \in 1..3 : y[k] = NoReference \/ y[k] \in DOMAIN byReference}}

\* The ghost fields every attempt records.
Attempted(imp, reference, outcome) ==
    [imp EXCEPT !.reference = reference, !.outcome = outcome,
                !.retried = @ \/ reference \in imp.tested,
                !.tested = @ \cup {reference},
                !.untestedReferences = @ \ {reference}]

\* Variant: a reference that got its Concept stays unimported.
ImportAttemptStaysUnimported(imp, reference, connectionReferences, got) ==
    IF got.ok
    THEN [Attempted(imp, reference, "Resolved") EXCEPT
             !.conceptsByReference = @ @@ (reference :> got.concept),
             !.untestedReferences =
                 @ \cup (ReferencesOf(connectionReferences)
                            \cap (imp.unimportedReferences \ {reference})),
             !.reconstructed = @ \cup {reference}]
    ELSE IF got.err = "NotSufficient"
         THEN Attempted(imp, reference, "NotSufficient")
         ELSE [Attempted(imp, reference, got.err) EXCEPT !.phase = "raised", !.err = got.err]

\* Variant: only the references of the triples that have the reference as
\* subject are put back.
ImportAttemptRetriesObjects(imp, reference, connectionReferences, got) ==
    IF got.ok
    THEN [Attempted(imp, reference, "Resolved") EXCEPT
             !.conceptsByReference = @ @@ (reference :> got.concept),
             !.unimportedReferences = @ \ {reference},
             !.untestedReferences =
                 @ \cup (ReferencesOf({x \in connectionReferences : x[1] = NoReference})
                            \cap (imp.unimportedReferences \ {reference})),
             !.reconstructed = @ \cup {reference}]
    ELSE IF got.err = "NotSufficient"
         THEN Attempted(imp, reference, "NotSufficient")
         ELSE [Attempted(imp, reference, got.err) EXCEPT !.phase = "raised", !.err = got.err]

\* Variant: the connected references are not put back.
ImportAttemptWithoutRetry(imp, reference, connectionReferences, got) ==
    IF got.ok
    THEN [Attempted(imp, reference, "Resolved") EXCEPT
             !.conceptsByReference = @ @@ (reference :> got.concept),
             !.unimportedReferences = @ \ {reference},
             !.reconstructed = @ \cup {reference}]
    ELSE IF got.err = "NotSufficient"
         THEN Attempted(imp, reference, "NotSufficient")
         ELSE [Attempted(imp, reference, got.err) EXCEPT !.phase = "raised", !.err = got.err]

\* Variant: semanticConnectionsNotSufficient is not caught.
ImportAttemptWithoutExcept(imp, reference, connectionReferences, got) ==
    IF got.ok
    THEN [Attempted(imp, reference, "Resolved") EXCEPT
             !.conceptsByReference = @ @@ (reference :> got.concept),
             !.unimportedReferences = @ \ {reference},
             !.untestedReferences =
                 @ \cup (ReferencesOf(connectionReferences)
                            \cap (imp.unimportedReferences \ {reference})),
             !.reconstructed = @ \cup {reference}]
    ELSE [Attempted(imp, reference, got.err) EXCEPT !.phase = "raised", !.err = got.err]

\* Variant: semanticConnectionsNotValid is caught as well.
ImportAttemptExceptAll(imp, reference, connectionReferences, got) ==
    IF got.ok
    THEN [Attempted(imp, reference, "Resolved") EXCEPT
             !.conceptsByReference = @ @@ (reference :> got.concept),
             !.unimportedReferences = @ \ {reference},
             !.untestedReferences =
                 @ \cup (ReferencesOf(connectionReferences)
                            \cap (imp.unimportedReferences \ {reference})),
             !.reconstructed = @ \cup {reference}]
    ELSE Attempted(imp, reference, got.err)

\* Variant: a reference whose connections are not sufficient stays in
\* untestedReferences.
ImportAttemptKeepsUntested(imp, reference, connectionReferences, got) ==
    IF got.ok
    THEN [Attempted(imp, reference, "Resolved") EXCEPT
             !.conceptsByReference = @ @@ (reference :> got.concept),
             !.unimportedReferences = @ \ {reference},
             !.untestedReferences =
                 @ \cup (ReferencesOf(connectionReferences)
                            \cap (imp.unimportedReferences \ {reference})),
             !.reconstructed = @ \cup {reference}]
    ELSE IF got.err = "NotSufficient"
         THEN [Attempted(imp, reference, "NotSufficient") EXCEPT
                  !.untestedReferences = imp.untestedReferences]
         ELSE [Attempted(imp, reference, got.err) EXCEPT !.phase = "raised", !.err = got.err]

(* Lines 259-268: the try statement of the loop.  The Concept obtained is  *)
(* entered under the reference and the still unimported references of its  *)
(* triples are put back into untestedReferences; NotSufficient is caught   *)
(* and passed over; any other exception leaves importSemanticData.         *)
ImportAttempt(imp, reference, connectionReferences, got) ==
    IF got.ok
    THEN [Attempted(imp, reference, "Resolved") EXCEPT
             !.conceptsByReference = @ @@ (reference :> got.concept),
             !.unimportedReferences = @ \ {reference},
             !.untestedReferences =
                 @ \cup (ReferencesOf(connectionReferences)
                            \cap (imp.unimportedReferences \ {reference})),
             !.reconstructed = @ \cup {reference}]
    ELSE IF got.err = "NotSufficient"
         THEN Attempted(imp, reference, "NotSufficient")
         ELSE [Attempted(imp, reference, got.err) EXCEPT !.phase = "raised", !.err = got.err]

\* Variant: unimported references are an error.
ImportReturnedStrict(imp) ==
    IF imp.unimportedReferences = {}
    THEN [imp EXCEPT !.phase = "done"]
    ELSE [imp EXCEPT !.phase = "raised", !.err = "Unresolved"]

\* Line 269: conceptsByReference is returned.
ImportReturned(imp) == [imp EXCEPT !.phase = "done"]

\* The SemanticData the model imports: byte data for the two predicates and
\* the numbers 0 and 1, and triples about two constructed references.
ImportedBytes ==
    (0 :> [implementation |-> "Identity", data |-> <<1>>])
    @@ (1 :> [implementation |-> "Identity", data |-> <<2>>])
    @@ (2 :> [implementation |-> "Number", data |-> <<48>>])
    @@ (3 :> [implementation |-> "Number", data |-> <<49>>])

CandidateTriples == {<<s, p, o>> : s \in {4, 5}, p \in {0, 1}, o \in {2, 3, 4, 5}}

SemanticDatas ==
    {[bytes |-> ImportedBytes, triples |-> T] :
        T \in {U \in SUBSET CandidateTriples : Cardinality(U) <= MaxTriples}}

----------------------------------------------------------------------------
(* exportSemanticData.                                                      *)

\* The three Concepts a SetConcept needs for its connections, in the order
\* getConnectionsFromContent obtains them.
WithConnectionConcepts(objs, o) ==
    objs \o SelectSeq(<<NumberConcept(Cardinality(o.members)), hasSetCount, hasSetEntry>>,
                      LAMBDA q : \A c \in DOMAIN objs : objs[c] # q)

(* SetConcept.getConnectionsFromContent with writeDistinctConnections: one *)
(* hasSetCount connection to the NumberConcept of the size and one         *)
(* hasSetEntry connection for every member.                                *)
SetGetConnectionsFromContent(objs, o) ==
    {<<NoConcept, GetConcept(objs, hasSetCount).concept,
       GetConcept(objs, NumberConcept(Cardinality(o.members))).concept>>}
    \cup {<<NoConcept, GetConcept(objs, hasSetEntry).concept, m>> : m \in o.members}

NoExport ==
    [phase |-> "none", concepts |-> {}, referenceByConcept |-> <<>>,
     byteDataInfoByReference |-> <<>>, referenceTriples |-> {},
     conceptsToExport |-> {}, exportedConcepts |-> {}, counter |-> 0,
     concept |-> NoConcept, semanticConnections |-> {}, store |-> <<>>]

\* Lines 181-189: exportSemanticData is called with the Concepts S and the
\* default nameConvention, a counter.
ExportCalled(S) ==
    [NoExport EXCEPT !.phase = "run", !.concepts = S, !.conceptsToExport = S]

\* Variant: an implementation that has connections as well is exported by
\* its connections.
ExportsByteDataUnlessConnections(d) == HasDataCodec(d) /\ ~HasConnectionsCodec(d)

\* Line 198: the Concepts of an implementation with getDataFromContent are
\* exported by their byte data.
ExportsByteData(d) == HasDataCodec(d)

\* Variant: a Concept met in a connection is put into conceptsToExport also
\* when it has a reference already.
NamedAlwaysEnqueued(e, c) ==
    IF c = NoConcept
    THEN e
    ELSE IF c \in DOMAIN e.referenceByConcept
         THEN [e EXCEPT !.conceptsToExport = @ \cup {c}]
         ELSE [e EXCEPT !.referenceByConcept = @ @@ (c :> e.counter),
                        !.counter = @ + 1,
                        !.conceptsToExport = @ \cup {c}]

\* Variant: a Concept met in a connection gets a reference but is not put
\* into conceptsToExport.
NamedNotEnqueued(e, c) ==
    IF c = NoConcept \/ c \in DOMAIN e.referenceByConcept
    THEN e
    ELSE [e EXCEPT !.referenceByConcept = @ @@ (c :> e.counter),
                   !.counter = @ + 1]

\* Lines 191-192 and 214-219: a Concept without reference gets one from
\* the nameConvention and is to be exported.
Named(e, c) ==
    IF c = NoConcept \/ c \in DOMAIN e.referenceByConcept
    THEN e
    ELSE [e EXCEPT !.referenceByConcept = @ @@ (c :> e.counter),
                   !.counter = @ + 1,
                   !.conceptsToExport = @ \cup {c}]

\* Variant: None stays in the triple.
ReferenceOfKeepsNone(e, c) ==
    IF c = NoConcept THEN NoReference ELSE e.referenceByConcept[c]

\* The reference of an element of a connection: the reference of the
\* exported Concept for None.
ReferenceOf(e, c) ==
    IF c = NoConcept THEN e.referenceByConcept[e.concept] ELSE e.referenceByConcept[c]

\* Lines 203-221 for one connection x, whose elements have references in e.
ExportedConnection(e, x) ==
    [e EXCEPT
        !.referenceTriples = @ \cup {<<ReferenceOf(e, x[1]), ReferenceOf(e, x[2]),
                                       ReferenceOf(e, x[3])>>},
        !.semanticConnections = @ \ {x},
        !.concept = IF e.semanticConnections = {x} THEN NoConcept ELSE @,
        !.exportedConcepts = IF e.semanticConnections = {x} THEN @ \cup {e.concept} ELSE @]


Init ==
    /\ StoreInit
    /\ objects = <<>>
    /\ exporter = NoExport
    /\ importer = NoImport

CallGetConceptFromContent(d, v) ==
    LET r == GetConceptFromContent(Store, d, v, 1)
    IN  /\ Commit(r)
        /\ returnedForContent' = IF r.ok
                                 THEN [returnedForContent EXCEPT ![d][v] = r.ret]
                                 ELSE returnedForContent
        /\ last' = [Outcome(r) EXCEPT !.op = "getConceptFromContent",
                                      !.implementation = d, !.content = v,
                                      !.heldBefore = returnedForContent[d][v]]

CallGetConceptFromIdentity(i) ==
    LET r == GetConceptFromIdentity(Store, i, 1)
    IN  /\ Commit(r)
        /\ last' = [Outcome(r) EXCEPT !.op = "getConceptFromIdentity", !.identity = i]
        /\ UNCHANGED returnedForContent

CallGetRawConceptFromIdentity(i) ==
    LET r == GetRawConceptFromIdentity(Store, i, 1)
    IN  /\ Commit(r)
        /\ last' = [Outcome(r) EXCEPT !.op = "getRawConceptFromIdentity", !.identity = i]
        /\ UNCHANGED returnedForContent

\* An owner reads the content property of a Concept it holds.
ReadContent(c) ==
    LET r == ContentOf(Store, c, 1)
    IN  /\ c \in held
        /\ Commit(r)
        /\ last' = [Outcome(r) EXCEPT !.op = "content", !.concept = c]
        /\ UNCHANGED returnedForContent

CallActivate ==
    LET r == Activate(Store, 1)
    IN  /\ Commit(r)
        /\ last' = [Outcome(r) EXCEPT !.op = "activate"]
        /\ UNCHANGED returnedForContent

\* An owner drops its reference to a Concept.
Release(c) ==
    /\ c \in held
    /\ held' = held \ {c}
    /\ returnedForContent' = [d \in Implementations |-> [v \in Contents |->
                                IF returnedForContent[d][v] = c THEN NoConcept
                                ELSE returnedForContent[d][v]]]
    /\ last' = [NoOperation EXCEPT !.op = "release", !.concept = c]
    /\ UNCHANGED <<concepts, live, implementations, loadedConcepts, identifiedConcepts,
                   nonRawImplementations, activated, unsupported, descriptor,
                   objects, exporter, importer>>

\* A Concept that nobody holds is reclaimed: the object is gone and its
\* entries vanish from the WeakValueDictionary indexes.
Reclaimable(c) == c \in live /\ c \notin held

Reclaimed ==
    [implementation |-> "None", identity |-> NoIdentity, content |-> NoContent,
     raw |-> FALSE, initialized |-> 0]

\* Variant: the entries of the reclaimed Concept stay in the dictionaries.
ReclaimKeepsEntries(c) ==
    /\ Reclaimable(c)
    /\ live' = live \ {c}
    /\ concepts' = [concepts EXCEPT ![c] = Reclaimed]
    /\ last' = [NoOperation EXCEPT !.op = "reclaim", !.concept = c]
    /\ UNCHANGED <<implementations, nonRawImplementations, activated, held, returnedForContent,
                   unsupported, descriptor, loadedConcepts, identifiedConcepts,
                   objects, exporter, importer>>

Reclaim(c) ==
    /\ Reclaimable(c)
    /\ live' = live \ {c}
    /\ concepts' = [concepts EXCEPT ![c] = Reclaimed]
    /\ loadedConcepts' = [d \in Implementations |-> [v \in Contents |->
                            IF loadedConcepts[d][v] = c THEN NoConcept ELSE loadedConcepts[d][v]]]
    /\ identifiedConcepts' = [d \in Implementations |->
                                SelectSeq(identifiedConcepts[d], LAMBDA e : e.val # c)]
    /\ last' = [NoOperation EXCEPT !.op = "reclaim", !.concept = c]
    /\ UNCHANGED <<implementations, nonRawImplementations, activated, held, returnedForContent,
                   unsupported, descriptor, objects, exporter, importer>>

\* A user constructs a raw Concept for the identity i directly:
\* Concept(None, i.implementation, store, i, True).  Line 308 looks the
\* identity dictionary of the implementation up and raises KeyError when the
\* store has none.
ConstructRawConcept(i) ==
    LET d == ConceptIdentity(i).implementation
        r == IF d \in Range(implementations)
             THEN ConceptInit(Store, NoContent, d, i, TRUE)
             ELSE Raise(Store, "KeyError")
    IN  /\ Commit(r)
        /\ last' = [Outcome(r) EXCEPT !.op = "Concept", !.identity = i]
        /\ UNCHANGED returnedForContent

\* A user constructs a Concept that is not raw directly:
\* Concept(v, d, store, i), with i = NoIdentity for no identity.
ConstructConcept(d, v, i) ==
    LET r == IF d \in Range(implementations)
             THEN ConceptInit(Store, v, d, i, FALSE)
             ELSE Raise(Store, "KeyError")
    IN  /\ Commit(r)
        /\ last' = [Outcome(r) EXCEPT !.op = "Concept", !.implementation = d,
                                      !.content = v, !.identity = i]
        /\ UNCHANGED returnedForContent

\* The value a hook of the implementation returns for the Concept c: the
\* content the hook finds in the Concept.
HookResult(r, c, hook) ==
    IF ~r.ok
    THEN r
    ELSE IF hook
         THEN ReturnContent(r.s, r.s.concepts[c].content)
         ELSE Raise(r.s, "AttributeError")

(* Concept.__oncall__: the callConcept hook, when given, is called with    *)
(* the Concept; without the hook the method returns None.                   *)
OnCall(s, c) ==
    IF ConceptImplementation(s.concepts[c].implementation).callConcept
    THEN HookResult(Return(s, NoConcept), c, TRUE)
    ELSE Return(s, NoConcept)

(* Concept.__getattr__ for an attribute the object does not have: a raw    *)
(* Concept is loaded through its identity, then the getConceptAttribute    *)
(* hook is called; without the hook the access raises AttributeError.      *)
GetAttr(s, c, depth) ==
    HookResult(IF s.concepts[c].raw
               THEN Call(s, "getConceptFromIdentity", s.concepts[c].identity, depth + 1)
               ELSE Return(s, NoConcept),
               c, ConceptImplementation(s.concepts[c].implementation).getConceptAttribute)

\* An owner invokes a Concept it holds.
InvokeConcept(c) ==
    LET r == OnCall(Store, c)
    IN  /\ c \in held
        /\ Commit(r)
        /\ last' = [Outcome(r) EXCEPT !.op = "__oncall__", !.concept = c]
        /\ UNCHANGED returnedForContent

\* An owner reads an attribute the Concept object does not have.
AccessAttribute(c) ==
    LET r == GetAttr(Store, c, 1)
    IN  /\ c \in held
        /\ Commit(r)
        /\ last' = [Outcome(r) EXCEPT !.op = "__getattr__", !.concept = c]
        /\ UNCHANGED returnedForContent

\* A user constructs a ConceptImplementation.
NewConceptImplementation(given) ==
    /\ descriptor' = ConceptImplementationInit(given)
    /\ UNCHANGED <<concepts, live, implementations, loadedConcepts, identifiedConcepts,
                   nonRawImplementations, activated, held, returnedForContent,
                   unsupported, objects, exporter, importer, last>>

\* The variables of the store of the Concepts with identities.
identityStoreVars ==
    <<concepts, live, implementations, loadedConcepts, identifiedConcepts,
      nonRawImplementations, activated, held, returnedForContent, unsupported,
      descriptor, last>>

\* A user calls importSemanticData with the SemanticData d on a store
\* without Concepts.
ImportCall(d) ==
    /\ importer.phase = "none"
    /\ exporter.phase = "none"
    /\ importer' = Called(d.bytes, d.triples)
    /\ UNCHANGED <<identityStoreVars, exporter, objects>>

\* One turn of the loop of lines 241-244.
ImportByte ==
    LET reference == Least(DOMAIN importer.bytes \ DOMAIN importer.conceptsByReference)
        g == GetConceptFromData(objects, importer.bytes[reference].implementation,
                                importer.bytes[reference].data)
    IN  /\ importer.phase = "bytes"
        /\ DOMAIN importer.bytes \ DOMAIN importer.conceptsByReference # {}
        /\ objects' = g.objects
        /\ importer' = ImportedByte(importer, reference, g)
        /\ UNCHANGED <<identityStoreVars, exporter>>

\* Line 246: the references without byte data are to be tested.
ImportLoop ==
    /\ importer.phase = "bytes"
    /\ DOMAIN importer.bytes \ DOMAIN importer.conceptsByReference = {}
    /\ importer' = [importer EXCEPT !.phase = "loop",
                                    !.untestedReferences = importer.unimportedReferences]
    /\ UNCHANGED <<identityStoreVars, exporter, objects>>

\* One turn of the loop of lines 247-268 with the reference that
\* untestedReferences.pop() yields.
ImportPop(reference) ==
    LET got == GetConceptFromSemanticConnections(
                   objects,
                   SemanticConnections(SemanticConnectionReferences(importer.triples, reference),
                                       importer.conceptsByReference))
    IN  /\ importer.phase = "loop"
        /\ reference \in importer.untestedReferences
        /\ objects' = got.objects
        /\ importer' =
              [ImportAttempt(importer, reference,
                             SemanticConnectionReferences(importer.triples, reference),
                             got)
                  EXCEPT !.semanticConnections =
                             SemanticConnections(
                                 SemanticConnectionReferences(importer.triples, reference),
                                 importer.conceptsByReference)]
        /\ UNCHANGED <<identityStoreVars, exporter>>

\* The loop ends when untestedReferences is empty.
ImportReturn ==
    /\ importer.phase = "loop"
    /\ importer.untestedReferences = {}
    /\ importer' = ImportReturned(importer)
    /\ UNCHANGED <<identityStoreVars, exporter, objects>>

\* importSemanticData is called a second time with the same SemanticData.
ImportAgain ==
    /\ importer.phase \in {"done", "raised"}
    /\ importer.run = 1
    /\ importer' = [Called(importer.bytes, importer.triples) EXCEPT
                       !.run = 2,
                       !.first = [returned |-> importer.phase = "done",
                                  references |-> DOMAIN importer.conceptsByReference]]
    /\ UNCHANGED <<identityStoreVars, exporter, objects>>

\* A user constructs a NumberConcept or a SetConcept of Concepts of the
\* store with getConceptFromContent, before the export.
CreateConcept(o) ==
    /\ exporter.phase = "none"
    /\ importer.phase = "none"
    /\ Len(objects) < MaxObjects
    /\ \A c \in DOMAIN objects : objects[c] # o
    /\ objects' = GetConcept(objects, o).objects
    /\ UNCHANGED <<identityStoreVars, exporter, importer>>

\* A user calls exportSemanticData with the Concepts S.
ExportCall(S) ==
    /\ exporter.phase = "none"
    /\ importer.phase = "none"
    /\ S # {}
    /\ exporter' = ExportCalled(S)
    /\ UNCHANGED <<identityStoreVars, importer, objects>>

\* One turn of the loop of lines 191-192, with the Concept c the iteration
\* over the set yields.
ExportName(c) ==
    /\ exporter.phase = "run"
    /\ c \in exporter.conceptsToExport \ DOMAIN exporter.referenceByConcept
    /\ exporter' = Named(exporter, c)
    /\ UNCHANGED <<identityStoreVars, importer, objects>>

\* Lines 194-202: conceptsToExport.pop() yields the Concept c; its byte
\* data is recorded, or its connections are obtained.
ExportPop(c) ==
    /\ exporter.phase = "run"
    /\ exporter.conceptsToExport \subseteq DOMAIN exporter.referenceByConcept
    /\ exporter.concept = NoConcept
    /\ c \in exporter.conceptsToExport
    /\ IF ExportsByteData(objects[c].implementation)
       THEN /\ exporter' =
                 [exporter EXCEPT
                     !.conceptsToExport = @ \ {c},
                     !.byteDataInfoByReference =
                         @ @@ (exporter.referenceByConcept[c] :>
                                  [implementation |-> objects[c].implementation,
                                   data |-> GetDataFromContent(objects[c])]),
                     !.exportedConcepts = @ \cup {c}]
            /\ UNCHANGED objects
       ELSE /\ objects' = WithConnectionConcepts(objects, objects[c])
            /\ exporter' =
                 [exporter EXCEPT
                     !.conceptsToExport = @ \ {c},
                     !.concept = c,
                     !.semanticConnections =
                         SetGetConnectionsFromContent(
                             WithConnectionConcepts(objects, objects[c]), objects[c])]
    /\ UNCHANGED <<identityStoreVars, importer>>

\* One turn of the loop of lines 203-221, with the connection x the
\* iteration over the connections yields: the elements get their
\* references in the order subject, predicate, object.
ExportConnection(x) ==
    /\ exporter.phase = "run"
    /\ x \in exporter.semanticConnections
    /\ exporter' = ExportedConnection(Named(Named(Named(exporter, x[1]), x[2]), x[3]), x)
    /\ UNCHANGED <<identityStoreVars, importer, objects>>

\* Line 224: the SemanticData is returned when conceptsToExport is empty.
ExportReturn ==
    /\ exporter.phase = "run"
    /\ exporter.conceptsToExport = {}
    /\ exporter.concept = NoConcept
    /\ exporter' = [exporter EXCEPT !.phase = "done"]
    /\ UNCHANGED <<identityStoreVars, importer, objects>>

\* A user calls importSemanticData with the SemanticData exported, on the
\* exporting store or on a store without Concepts.
ImportExported(fresh) ==
    /\ exporter.phase = "done"
    /\ importer.phase = "none"
    /\ importer' = [Called(exporter.byteDataInfoByReference, exporter.referenceTriples)
                       EXCEPT !.fresh = fresh]
    /\ exporter' = [exporter EXCEPT !.store = objects]
    /\ objects' = IF fresh THEN <<>> ELSE objects
    /\ UNCHANGED identityStoreVars

\* The operations over the implementations D, contents C and identities I.
Operations(D, C, I) ==
    \/ \E d \in D, v \in C : CallGetConceptFromContent(d, v)
    \/ \E i \in I : CallGetConceptFromIdentity(i)
    \/ \E i \in I : CallGetRawConceptFromIdentity(i)
    \/ \E c \in 1..MaxConcepts : ReadContent(c)
    \/ CallActivate
    \/ \E c \in 1..MaxConcepts : Release(c)
    \/ \E c \in 1..MaxConcepts : Reclaim(c)

Next == Operations({"d1", "d2"}, {"x", "y", "bad"}, {"P", "R", "V"})

Spec == Init /\ [][Next]_vars

\* The identities whose contentCreationFunctions call each other or themselves.
NextCycle == Operations({"d1"}, {"x"}, {"A", "B", "S"})

SpecCycle == Init /\ [][NextCycle]_vars

\* Two identities whose contentCreationFunctions return the same content.
NextAttach == Operations({"d2"}, {"x"}, {"P", "Q"})

SpecAttach == Init /\ [][NextAttach]_vars

\* The store operations together with raw Concepts constructed directly.
NextRaw ==
    \/ Operations({"d1"}, {"x", "y"}, {"V"})
    \/ ConstructRawConcept("V")

SpecRaw == Init /\ [][NextRaw]_vars

\* The store operations together with Concepts constructed directly.
NextConstruct ==
    \/ Operations({"d1"}, {"x", "y"}, {"V"})
    \/ \E v \in {"x", "y"}, i \in {NoIdentity, "V"} : ConstructConcept("d1", v, i)

SpecConstruct == Init /\ [][NextConstruct]_vars

\* The store operations, raw Concepts constructed directly, and the
\* invocation and attribute access of the Concepts held.
NextTriggers ==
    \/ Operations({"d1"}, {"x"}, {"V"})
    \/ ConstructRawConcept("V")
    \/ \E c \in 1..MaxConcepts : InvokeConcept(c)
    \/ \E c \in 1..MaxConcepts : AccessAttribute(c)

SpecTriggers == Init /\ [][NextTriggers]_vars

\* Implementations without contentValid and with a rejecting
\* implementationSupported.
NextHooks == Operations({"d2", "d3", "d4"}, {"x"}, {"P", "T", "U"})

SpecHooks == Init /\ [][NextHooks]_vars

\* The construction of ConceptImplementation objects.
NextDescriptor == \E given \in SUBSET Callbacks : NewConceptImplementation(given)

SpecDescriptor == Init /\ [][NextDescriptor]_vars

\* importSemanticData on an empty store, for every SemanticData.
ImportStep ==
    \/ ImportByte
    \/ ImportLoop
    \/ \E reference \in ReferencesOf(CandidateTriples) : ImportPop(reference)
    \/ ImportReturn

NextImport ==
    \/ \E d \in SemanticDatas : ImportCall(d)
    \/ ImportStep

SpecImport == Init /\ [][NextImport]_vars

\* A call that has begun runs on: the interpreter takes the next step of it.
SpecImportFair == SpecImport /\ WF_vars(ImportStep)

\* Two calls with the same SemanticData, one after the other.
NextImportTwice ==
    \/ NextImport
    \/ ImportAgain

SpecImportTwice == Init /\ [][NextImportTwice]_vars

\* The Concepts a user constructs: numbers and sets of Concepts of the store.
UserContents(objs) ==
    {NumberConcept(n) : n \in 0..1}
    \cup {SetConcept(m) : m \in {u \in SUBSET DOMAIN objs : Cardinality(u) <= MaxMembers}}

\* A store is filled, some of its Concepts are exported, and the exported
\* SemanticData is imported.
NextRoundTrip ==
    \/ \E o \in UserContents(objects) : CreateConcept(o)
    \/ \E S \in SUBSET DOMAIN objects : ExportCall(S)
    \/ \E c \in DOMAIN objects : ExportName(c)
    \/ \E c \in DOMAIN objects : ExportPop(c)
    \/ \E x \in exporter.semanticConnections : ExportConnection(x)
    \/ ExportReturn
    \/ \E fresh \in BOOLEAN : ImportExported(fresh)
    \/ ImportByte
    \/ ImportLoop
    \/ \E reference \in DOMAIN exporter.referenceByConcept :
          ImportPop(exporter.referenceByConcept[reference])
    \/ ImportReturn

SpecRoundTrip == Init /\ [][NextRoundTrip]_vars

\* The Concepts a user constructs before an export: those of UserContents
\* and Concepts of the implementation with both pairs of functions.
ExportContents(objs) ==
    UserContents(objs)
    \cup {CodedSetConcept(m) :
             m \in {u \in SUBSET DOMAIN objs : u # {} /\ Cardinality(u) <= MaxMembers}}

\* exportSemanticData on a store a user has filled.
ExportStep ==
    \/ \E c \in DOMAIN objects : ExportName(c)
    \/ \E c \in DOMAIN objects : ExportPop(c)
    \/ \E x \in exporter.semanticConnections : ExportConnection(x)
    \/ ExportReturn

NextExport ==
    \/ \E o \in ExportContents(objects) : CreateConcept(o)
    \/ \E S \in SUBSET DOMAIN objects : ExportCall(S)
    \/ ExportStep

SpecExport == Init /\ [][NextExport]_vars

\* A call that has begun runs on: the interpreter takes the next step of it.
SpecExportFair == SpecExport /\ WF_vars(ExportStep)

TypeOK ==
    /\ Len(concepts) <= MaxConcepts
    /\ live \subseteq 1..Len(concepts)
    /\ held \subseteq live
    /\ Range(implementations) \subseteq Implementations
    /\ nonRawImplementations \subseteq Implementations
    /\ activated \in BOOLEAN

----------------------------------------------------------------------------
(* Properties of the store.                                                 *)

Resolved(c) == ~concepts[c].raw

InContentIndex(c) ==
    loadedConcepts[concepts[c].implementation][concepts[c].content] = c

InIdentityIndex(c) ==
    IdGet(identifiedConcepts[concepts[c].implementation], concepts[c].identity) = c

\* C1: a call getConceptFromContent(d, v) that follows an earlier call with
\* the same d and v, whose result an owner has held ever since, returns that
\* same Concept, whatever operations were performed in between.
C1_Uniqueness ==
    (last.op = "getConceptFromContent" /\ last.ok /\ last.heldBefore # NoConcept)
        => last.ret = last.heldBefore

C1_Witness ==
    /\ last.op = "getConceptFromContent"
    /\ last.ok
    /\ last.heldBefore # NoConcept
    /\ last.ret = last.heldBefore
    /\ activated
    /\ concepts[last.ret].identity # NoIdentity

C3_IdentityUniqueness ==
    \A a \in live, b \in live :
        (concepts[a].identity # NoIdentity /\ concepts[a].identity = concepts[b].identity)
            => a = b

C3_Witness ==
    \E a \in live, b \in live :
        /\ a # b
        /\ concepts[a].identity # NoIdentity
        /\ concepts[b].identity # NoIdentity
        /\ concepts[a].identity # concepts[b].identity
        /\ last.op \in {"getConceptFromIdentity", "getRawConceptFromIdentity"}
        /\ last.ok
        /\ last.factoryCalls = 0

storeVars == <<concepts, live, implementations, loadedConcepts, identifiedConcepts,
               nonRawImplementations, activated>>

\* A Concept that is not raw and is not reclaimed stays not raw and keeps
\* its content.
OneWay ==
    \A c \in live :
        (~concepts[c].raw /\ c \in live')
            => (~concepts'[c].raw /\ concepts'[c].content = concepts[c].content)

\* The step reads the content of a Concept that is not raw.
ReadOfResolved ==
    /\ last'.op = "content"
    /\ last'.concept \in live
    /\ ~concepts[last'.concept].raw

\* The step is getConceptFromIdentity for an identity whose Concept is not raw.
GetOfResolved ==
    /\ last'.op = "getConceptFromIdentity"
    /\ \E c \in live :
          /\ c = IdGet(identifiedConcepts[ConceptIdentity(last'.identity).implementation],
                       last'.identity)
          /\ ~concepts[c].raw

\* The step is activate on a store that has identified Concepts, none raw.
ActivateOfResolved ==
    /\ last'.op = "activate"
    /\ \E c \in live : concepts[c].identity # NoIdentity
    /\ \A c \in live : ~concepts[c].raw

\* C5 as stated: once a Concept is not raw it never becomes raw again and
\* keeps its content, and resolving it again by a content read, by
\* getConceptFromIdentity or by activate changes no state of the store.
C5_Original ==
    [][/\ OneWay
       /\ (ReadOfResolved \/ GetOfResolved \/ ActivateOfResolved)
             => UNCHANGED storeVars]_vars

\* C5 as amended: once a Concept is not raw it never becomes raw again and
\* keeps its content; a content read or getConceptFromIdentity of it changes
\* no state of the store, and activate changes nothing but the activated flag.
C5_OneWay ==
    [][/\ OneWay
       /\ (ReadOfResolved \/ GetOfResolved) => UNCHANGED storeVars
       /\ ActivateOfResolved =>
             UNCHANGED <<concepts, live, implementations, loadedConcepts,
                         identifiedConcepts, nonRawImplementations>>]_vars

C5_Witness ==
    /\ last.op = "getConceptFromIdentity"
    /\ last.ok
    /\ last.factoryCalls = 0
    /\ activated
    /\ ~concepts[last.ret].raw
    /\ concepts[last.ret].content = "x"
    /\ last.identity = "V"

\* C6: getRawConceptFromIdentity(i), called when i has no Concept, the store
\* is not activated and no Concept is loaded for the implementation of i,
\* returns a new raw Concept without content that is entered in the identity
\* dictionary only, and does not call the contentCreationFunction.
C6_RawConstructed ==
    [][\A i \in Identities :
          LET d == ConceptIdentity(i).implementation
          IN  (/\ last'.op = "getRawConceptFromIdentity"
               /\ last'.identity = i
               /\ ~IdIn(identifiedConcepts[d], i)
               /\ ~activated
               /\ \A v \in Contents : loadedConcepts[d][v] = NoConcept)
              => (/\ last'.ok
                  /\ last'.ret \notin 1..Len(concepts)
                  /\ concepts'[last'.ret].raw
                  /\ concepts'[last'.ret].content = NoContent
                  /\ IdGet(identifiedConcepts'[d], i) = last'.ret
                  /\ \A v \in Contents : loadedConcepts'[d][v] # last'.ret
                  /\ last'.factoryCalls = 0)]_vars

\* C7: a request for one of the two identities A and B, whose
\* contentCreationFunctions obtain each other through
\* getRawConceptFromIdentity, returns a Concept after at most one call of
\* each contentCreationFunction, and activate returns with no raw Concept left.
C7_CycleSafety ==
    /\ (last.op \in {"getConceptFromIdentity", "getRawConceptFromIdentity"}
            /\ last.identity \in {"A", "B"})
          => (last.ok /\ last.factoryCalls <= 2)
    /\ last.op = "activate" => (last.ok /\ \A c \in live : ~concepts[c].raw)

\* The identities whose contentCreationFunction demands the Concept of the
\* identity itself through getConceptFromIdentity.
SelfDemanding ==
    {i \in Identities :
        \E k \in DOMAIN ConceptIdentity(i).calls :
            ConceptIdentity(i).calls[k] = [call |-> "get", identity |-> i]}

\* C8: a contentCreationFunction that demands the Concept of its own identity
\* while it is running is not entered a second time: the nested demand is
\* rejected instead.
C8_ReentrancyRejected == last.reentered \cap SelfDemanding = {}

C11_ActivateIdempotent ==
    [][(last'.op = "activate" /\ activated)
          => (/\ last'.ok
              /\ last'.factoryCalls = 0
              /\ UNCHANGED storeVars)]_vars

C11_Witness ==
    /\ last.op = "activate"
    /\ last.ok
    /\ activated
    /\ \E c \in live : concepts[c].identity = "V" /\ concepts[c].content = "y"

\* C12: getConceptFromContent(d, v), called for an implementation d that is
\* not in _nonRawImplementations, leaves no Concept of d raw, and when the
\* identity of a raw Concept of d yields the content v the call returns that
\* Concept, which keeps its identity.
C12_CollisionWindow ==
    [][\A c \in live :
          (/\ last'.op = "getConceptFromContent"
           /\ last'.implementation \notin nonRawImplementations
           /\ concepts[c].implementation = last'.implementation
           /\ InIdentityIndex(c)
           /\ concepts[c].raw)
          => (/\ ~concepts'[c].raw
              /\ concepts'[c].content = last'.content
                    => (/\ last'.ok
                        /\ last'.ret = c
                        /\ concepts'[c].identity = concepts[c].identity))]_vars

\* C13: no live Concept of an implementation in _nonRawImplementations is
\* raw, and getRawConceptFromIdentity for an identity of such an
\* implementation returns a Concept that is not raw, also when the Concepts
\* loaded for the implementation have been reclaimed.
C13_NonRawImplementations ==
    /\ \A c \in live :
          concepts[c].implementation \in nonRawImplementations => ~concepts[c].raw
    /\ (/\ last.op = "getRawConceptFromIdentity"
        /\ last.ok
        /\ ConceptIdentity(last.identity).implementation \in nonRawImplementations)
          => ~concepts[last.ret].raw

C13_Witness ==
    /\ last.op = "getRawConceptFromIdentity"
    /\ last.ok
    /\ last.identity = "V"
    /\ "d1" \in nonRawImplementations
    /\ ~activated
    /\ last.factoryCalls = 1
    /\ last.ret = 2
    /\ live = {2}
    /\ ~concepts[2].raw

\* C14: getConceptFromIdentity(i), called when the identity dictionary holds
\* a Concept for i, returns that Concept, not raw: without calling the
\* contentCreationFunction when the Concept was not raw, and after loading it
\* when it was raw.
C14_ExistingConcept ==
    [][\A c \in live :
          (/\ last'.op = "getConceptFromIdentity"
           /\ c = IdGet(identifiedConcepts[ConceptIdentity(last'.identity).implementation],
                        last'.identity))
          => (/\ last'.ok
              /\ last'.ret = c
              /\ ~concepts'[c].raw
              /\ ~concepts[c].raw => last'.factoryCalls = 0)]_vars

\* The content the contentCreationFunction of the identity i returns in the
\* current state of the store.
Yields(i) ==
    IF activated THEN ConceptIdentity(i).contentActivated ELSE ConceptIdentity(i).content

\* C15: getConceptFromIdentity(i) for an identity i without entry in the
\* identity dictionary, whose contentCreationFunction yields the content of
\* a Concept without identity, returns that Concept with the identity i and
\* an entry under i: no Concept is constructed for i and the
\* initializeConcept hook is not called again.
C15_IdentityAttached ==
    [][\A c \in live :
          (/\ last'.op = "getConceptFromIdentity"
           /\ ~IdIn(identifiedConcepts[ConceptIdentity(last'.identity).implementation],
                    last'.identity)
           /\ loadedConcepts[ConceptIdentity(last'.identity).implementation]
                             [Yields(last'.identity)] = c
           /\ concepts[c].identity = NoIdentity)
          => (/\ last'.ok
              /\ last'.ret = c
              /\ concepts'[c].identity = last'.identity
              /\ IdGet(identifiedConcepts'[concepts[c].implementation], last'.identity) = c
              /\ concepts'[c].initialized = concepts[c].initialized
              /\ concepts'[c].content = concepts[c].content
              /\ \A b \in live' :
                    (/\ concepts'[b].implementation = concepts[c].implementation
                     /\ concepts'[b].content = concepts[c].content) => b = c)]_vars

C15_Witness ==
    /\ last.op = "getConceptFromIdentity"
    /\ last.ok
    /\ last.identity = "P"
    /\ last.factoryCalls = 1
    /\ Len(concepts) = 1
    /\ returnedForContent["d2"]["x"] = 1
    /\ last.ret = 1
    /\ concepts[1].identity = "P"
    /\ identifiedConcepts["d2"] = <<[key |-> "P", val |-> 1]>>

\* C16: getConceptFromIdentity(i) for an identity i without entry in the
\* identity dictionary, whose contentCreationFunction yields the content of
\* a Concept that has another identity, fails and leaves the identity of
\* that Concept and the identity dictionaries as they are.
C16_OneIdentity ==
    [][\A c \in live :
          (/\ last'.op = "getConceptFromIdentity"
           /\ ~IdIn(identifiedConcepts[ConceptIdentity(last'.identity).implementation],
                    last'.identity)
           /\ loadedConcepts[ConceptIdentity(last'.identity).implementation]
                             [Yields(last'.identity)] = c
           /\ concepts[c].identity # NoIdentity)
          => (/\ ~last'.ok
              /\ concepts'[c].identity = concepts[c].identity
              /\ identifiedConcepts' = identifiedConcepts)]_vars

\* C17: getConceptFromContent(d, v) with a content v that contentValid of d
\* rejects fails and changes nothing in the store: no dictionary is created
\* for d, no contentCreationFunction is called, d is not added to
\* _nonRawImplementations and no Concept is constructed.
C17_InvalidContent ==
    [][(/\ last'.op = "getConceptFromContent"
        /\ ConceptImplementation(last'.implementation).hasContentValid
        /\ last'.content \notin ConceptImplementation(last'.implementation).contentValid)
          => (/\ ~last'.ok
              /\ last'.err = "InvalidContent"
              /\ last'.factoryCalls = 0
              /\ UNCHANGED storeVars)]_vars

C17_Witness ==
    /\ last.op = "getConceptFromContent"
    /\ last.err = "InvalidContent"
    /\ last.implementation = "d1"
    /\ "d1" \notin Range(implementations)
    /\ nonRawImplementations = {}
    /\ live # {}

\* The implementation the operation performed last was called for.
LastImplementation ==
    IF last.op = "getConceptFromContent"
    THEN last.implementation
    ELSE IF last.op \in {"getConceptFromIdentity", "getRawConceptFromIdentity"}
         THEN ConceptIdentity(last.identity).implementation
         ELSE "None"

\* C18: for an implementation constructed without contentValid,
\* getConceptFromContent(d, v) accepts every content v and returns a Concept
\* that is not raw and has the content v.
C18_ContentValidOptional ==
    (/\ last.op = "getConceptFromContent"
     /\ ~ConceptImplementation(last.implementation).hasContentValid)
        => (/\ last.ok
            /\ ~concepts[last.ret].raw
            /\ concepts[last.ret].content = last.content)

\* C19: every operation of the store called for an implementation whose
\* implementationSupported rejects the store fails; the implementation gets
\* neither a content dictionary nor an identity dictionary, so that every
\* later operation called for it fails in the same way.
C19_UnsupportedImplementation ==
    \A d \in Implementations :
        ConceptImplementation(d).implementationSupported = "reject"
            => (/\ d \notin Range(implementations)
                /\ \A v \in Contents : loadedConcepts[d][v] = NoConcept
                /\ identifiedConcepts[d] = <<>>
                /\ LastImplementation = d
                      => (~last.ok /\ last.err = "UnsupportedImplementation"))

C19_Witness ==
    /\ last.op = "getRawConceptFromIdentity"
    /\ last.identity = "T"
    /\ ~last.ok
    /\ last.err = "UnsupportedImplementation"
    /\ "d3" \in last.unsupportedBefore
    /\ "d3" \notin Range(implementations)
    /\ live # {}

\* The callbacks of the bytes pair and of the connections pair.
BytesPair == {"getContentFromData", "getDataFromContent"}

ConnectionsPair == {"getContentFromConnections", "getConnectionsFromContent"}

\* C20: the construction of a ConceptImplementation fails when exactly one
\* callback of the bytes pair is given, when exactly one callback of the
\* connections pair is given, or when neither pair is given, and succeeds
\* for every other combination of callbacks.
C20_DescriptorConstruction ==
    descriptor.op = "ConceptImplementation"
        => (descriptor.ok <=>
              ~(\/ Cardinality(descriptor.given \cap BytesPair) = 1
                \/ Cardinality(descriptor.given \cap ConnectionsPair) = 1
                \/ descriptor.given \cap (BytesPair \cup ConnectionsPair) = {}))

C20_Witness ==
    /\ descriptor.op = "ConceptImplementation"
    /\ descriptor.ok
    /\ descriptor.given = ConnectionsPair \cup {"initializeConcept"}

----------------------------------------------------------------------------
(* Rejected constructions, reclaimed Concepts and the triggers of the      *)
(* loading of a raw Concept.                                               *)

\* C21: a construction of a Concept that fails because the identity is in
\* the identity dictionary or the content is in the content dictionary of
\* the implementation leaves both dictionaries as they were: no entry is
\* added for the rejected Concept and none is overwritten.
C21_RejectedConstruction ==
    [][(/\ last'.op = "Concept"
        /\ last'.err \in {"DuplicateIdentity", "DuplicateContent"})
       => (/\ loadedConcepts' = loadedConcepts
           /\ identifiedConcepts' = identifiedConcepts)]_vars

\* The dictionaries loaded and identified hold an entry for the Concept c.
Indexed(loaded, identified, c) ==
    \/ \E d \in Implementations, v \in Contents : loaded[d][v] = c
    \/ \E d \in Implementations : \E k \in DOMAIN identified[d] : identified[d][k].val = c

\* C29: the dictionaries of the store hold entries of live Concepts only;
\* the reclaiming of a Concept that nobody holds removes its entries from
\* the content dictionary and from the identity dictionary, and a
\* getConceptFromContent for a content without entry returns a Concept
\* constructed by the call, for which the initializeConcept hook, when
\* given, has run once.
C29_NonOwningIndexes ==
    [][/\ \A c \in 1..Len(concepts') :
             Indexed(loadedConcepts', identifiedConcepts', c) => c \in live'
       /\ last'.op = "reclaim"
             => ~Indexed(loadedConcepts', identifiedConcepts', last'.concept)
       /\ (/\ last'.op = "getConceptFromContent"
           /\ last'.ok
           /\ loadedConcepts[last'.implementation][last'.content] = NoConcept)
             => (/\ last'.ret = Len(concepts) + 1
                 /\ Len(concepts') = Len(concepts) + 1
                 /\ concepts'[last'.ret].content = last'.content
                 /\ concepts'[last'.ret].initialized =
                        IF ConceptImplementation(last'.implementation).initializeConcept
                        THEN 1 ELSE 0)]_vars

\* A Concept with the content x of d1 was returned, released and reclaimed,
\* and getConceptFromContent(d1, x) has constructed another one.
C29_Witness ==
    /\ last.op = "getConceptFromContent"
    /\ last.ok
    /\ last.implementation = "d1"
    /\ last.content = "x"
    /\ Len(concepts) = 2
    /\ last.ret = 2
    /\ live = {2}
    /\ concepts[1] = Reclaimed
    /\ loadedConcepts["d1"]["x"] = 2
    /\ concepts[2].initialized = 1

\* C30: a read of the content, an invocation and an access of an unknown
\* attribute that produce their result leave the Concept not raw and with
\* its content, and the value the hook computed was computed from that
\* content.
C30_ResolutionTriggers ==
    (/\ last.op \in {"content", "__oncall__", "__getattr__"}
     /\ last.ok
     /\ last.op = "__oncall__"
           => ConceptImplementation(concepts[last.concept].implementation).callConcept)
    => (/\ ~concepts[last.concept].raw
        /\ concepts[last.concept].content # NoContent
        /\ last.value = concepts[last.concept].content)

----------------------------------------------------------------------------
(* Properties of exportSemanticData followed by importSemanticData.        *)

RECURSIVE Structure(_, _)

\* The content of the Concept c of the store objs, with the contents of its
\* members in place of the member Concepts.
Structure(objs, c) ==
    [implementation |-> objs[c].implementation, value |-> objs[c].value,
     members |-> {Structure(objs, m) : m \in objs[c].members}]

\* C22: importSemanticData of the SemanticData that exportSemanticData
\* returned for the Concepts S returns, and its result has for the
\* reference of every Concept of S a Concept with the same implementation
\* and equal content; on the exporting store that Concept is the exported
\* Concept itself.
C22_RoundTrip ==
    /\ exporter.phase = "done" => importer.phase # "raised"
    /\ (exporter.phase = "done" /\ importer.phase = "done")
          => \A c \in exporter.concepts :
                /\ exporter.referenceByConcept[c] \in DOMAIN importer.conceptsByReference
                /\ Structure(objects,
                             importer.conceptsByReference[exporter.referenceByConcept[c]])
                      = Structure(exporter.store, c)
                /\ ~importer.fresh
                      => importer.conceptsByReference[exporter.referenceByConcept[c]] = c

\* A SetConcept whose member is a SetConcept was exported and imported on a
\* store without Concepts, where its reference was tested twice.
C22_Witness ==
    /\ exporter.phase = "done"
    /\ importer.phase = "done"
    /\ importer.fresh
    /\ importer.retried
    /\ \E c \in exporter.concepts :
          /\ exporter.store[c].implementation = "Set"
          /\ \E m \in exporter.store[c].members : exporter.store[m].implementation = "Set"

----------------------------------------------------------------------------
(* Properties of importSemanticData.                                       *)

\* C23: two calls of importSemanticData with the same SemanticData end the
\* same way, and when they return their results have the same references,
\* whatever references untestedReferences.pop() yields in each call.
C23_ImportDeterminism ==
    (/\ importer.run = 2
     /\ importer.phase \in {"done", "raised"})
    => (/\ (importer.phase = "done") = importer.first.returned
        /\ importer.phase = "done"
              => DOMAIN importer.conceptsByReference = importer.first.references)

\* The outcome of the resolver for a reference that has no Concept, with
\* the connections built from conceptsByReference.
Resolvable(reference) ==
    SetGetContentFromConnections(
        objects,
        SemanticConnections(SemanticConnectionReferences(importer.triples, reference),
                            importer.conceptsByReference))

\* C24: the loop of importSemanticData ends: untestedReferences becomes
\* empty and the call returns, or an exception other than NotSufficient
\* leaves the call, whatever references pop() yields.
C24_FixpointTermination ==
    importer.phase = "bytes"
        ~> (\/ importer.phase = "raised"
            \/ importer.phase = "done" /\ importer.untestedReferences = {})

\* The call returned after a reference was tested twice.
C24_Witness ==
    /\ importer.phase = "done"
    /\ importer.untestedReferences = {}
    /\ importer.retried
    /\ importer.outcome = "Resolved"

\* C25: when importSemanticData has returned, the resolver reports
\* NotSufficient for every reference of the triples that is absent from the
\* result, with the connections built from the references of the result.
C25_FixpointComplete ==
    importer.phase = "done"
    => \A r \in ReferencesOf(importer.triples) \ DOMAIN importer.conceptsByReference :
          Resolvable(r).err = "NotSufficient"

\* The call returned with a reconstructed reference and an absent one, after
\* a second test of a reference.
C25_Witness ==
    /\ importer.phase = "done"
    /\ importer.reconstructed # {}
    /\ importer.retried
    /\ ReferencesOf(importer.triples) \ DOMAIN importer.conceptsByReference # {}

\* C26: semanticConnectionsNotSufficient never leaves importSemanticData:
\* after it the loop goes on (or the call returns) and the reference has no
\* Concept and is still unimported.
C26_NotSufficientCaught ==
    /\ importer.err # "NotSufficient"
    /\ importer.outcome = "NotSufficient"
          => (/\ importer.phase \in {"loop", "done"}
              /\ importer.reference \in importer.unimportedReferences
              /\ importer.reference \notin DOMAIN importer.conceptsByReference)

\* The resolver reported NotSufficient and the loop goes on with another
\* reference.
C26_Witness ==
    /\ importer.outcome = "NotSufficient"
    /\ importer.phase = "loop"
    /\ importer.untestedReferences # {}

\* C27: semanticConnectionsNotValid is not caught by the loop: it leaves
\* importSemanticData, no result is returned, and the reference has no
\* Concept and is not in untestedReferences.
C27_NotValidRaised ==
    importer.outcome = "NotValid"
    => (/\ importer.phase = "raised"
        /\ importer.err = "NotValid"
        /\ importer.reference \notin DOMAIN importer.conceptsByReference
        /\ importer.reference \notin importer.untestedReferences
        /\ importer.reference \in importer.unimportedReferences)

\* The resolver reported NotValid after another reference was reconstructed.
C27_Witness ==
    /\ importer.outcome = "NotValid"
    /\ importer.phase = "raised"
    /\ importer.reconstructed # {}

\* C28: importSemanticData ends with an exception only when the resolver
\* raised one other than NotSufficient; when untestedReferences is empty it
\* returns, and the result holds exactly the references with byte data and
\* the reconstructed ones, none of the unimported ones.
C28_PartialImport ==
    /\ importer.phase = "raised" => importer.err = "NotValid"
    /\ importer.phase = "done"
          => (/\ importer.err = "None"
              /\ DOMAIN importer.conceptsByReference
                    = DOMAIN importer.bytes \cup importer.reconstructed
              /\ importer.unimportedReferences
                    = ReferencesOf(importer.triples) \ DOMAIN importer.conceptsByReference
              /\ importer.reconstructed \subseteq ReferencesOf(importer.triples))

\* The call returned without a Concept for two references.
C28_Witness ==
    /\ importer.phase = "done"
    /\ importer.err = "None"
    /\ Cardinality(importer.unimportedReferences) = 2
    /\ ~importer.retried

----------------------------------------------------------------------------
\* C31: getRawConceptFromIdentity(i), called when the identity dictionary
\* holds a Concept for i, returns that Concept, raw or not, and changes no
\* state of the store: the contentCreationFunction is not called, a raw
\* Concept stays raw, and the dictionaries are as before.
C31_ExistingReturnedAsIs ==
    [][\A c \in live :
          (/\ last'.op = "getRawConceptFromIdentity"
           /\ c = IdGet(identifiedConcepts[ConceptIdentity(last'.identity).implementation],
                        last'.identity))
          => (/\ last'.ok
              /\ last'.ret = c
              /\ last'.factoryCalls = 0
              /\ UNCHANGED storeVars)]_vars

\* getRawConceptFromIdentity has returned a raw Concept: one constructed
\* before the call, since the call itself constructs none.
C31_Witness ==
    /\ last.op = "getRawConceptFromIdentity"
    /\ last.ok
    /\ last.ret \in live
    /\ concepts[last.ret].raw
    /\ concepts[last.ret].content = NoContent
    /\ IdGet(identifiedConcepts["d1"], "V") = last.ret

\* C32: when the loading of a raw Concept fails, by getConceptFromIdentity
\* of its identity or by a read of its content, the Concept is still raw
\* and without content afterwards, both dictionaries are as before and
\* initializeConcept has not been called for it.
C32_FailedResolutionKeepsRaw ==
    [][\A c \in live :
          (/\ concepts[c].raw
           /\ ~last'.ok
           /\ \/ /\ last'.op = "getConceptFromIdentity"
                 /\ c = IdGet(identifiedConcepts[ConceptIdentity(last'.identity).implementation],
                              last'.identity)
              \/ /\ last'.op = "content"
                 /\ last'.concept = c)
          => (/\ concepts'[c].raw
              /\ concepts'[c].content = NoContent
              /\ concepts'[c].initialized = concepts[c].initialized
              /\ UNCHANGED <<loadedConcepts, identifiedConcepts>>)]_vars

----------------------------------------------------------------------------
(* Properties of exportSemanticData.                                        *)

\* The reference triple of the connection x of the Concept c.
ReferenceTriple(byConcept, c, x) ==
    <<byConcept[IF x[1] = NoConcept THEN c ELSE x[1]],
      byConcept[IF x[2] = NoConcept THEN c ELSE x[2]],
      byConcept[IF x[3] = NoConcept THEN c ELSE x[3]]>>

\* The Concept c has been exported: its byte data is recorded under its
\* reference, or the triples of its connections are in referenceTriples.
Exported(c) ==
    /\ c \in exporter.exportedConcepts
    /\ c \in DOMAIN exporter.referenceByConcept
    /\ IF HasDataCodec(objects[c].implementation)
       THEN exporter.referenceByConcept[c] \in DOMAIN exporter.byteDataInfoByReference
       ELSE \A x \in SetGetConnectionsFromContent(objects, objects[c]) :
               /\ \A k \in 1..3 : x[k] # NoConcept => x[k] \in DOMAIN exporter.referenceByConcept
               /\ ReferenceTriple(exporter.referenceByConcept, c, x) \in exporter.referenceTriples

\* When exportSemanticData has returned, conceptsToExport is empty and the
\* Concepts of the connections of every exported Concept without byte data
\* are exported.
ExportClosed ==
    exporter.phase = "done"
       => /\ exporter.conceptsToExport = {}
          /\ \A c \in exporter.exportedConcepts :
                ~HasDataCodec(objects[c].implementation)
                   => \A x \in SetGetConnectionsFromContent(objects, objects[c]) :
                         \A k \in 1..3 : x[k] # NoConcept => Exported(x[k])

\* C33: exportSemanticData returns, with conceptsToExport empty, and then
\* every Concept of a connection of an exported Concept without byte data
\* has been exported itself: its reference has byte data or is the
\* reference put for None in the triples of its own connections.
C33_ExportClosure ==
    /\ (exporter.phase = "run") ~> (exporter.phase = "done")
    /\ []ExportClosed

\* exportSemanticData has returned after exporting a SetConcept that was
\* not among the Concepts given but is a member of one of them.
C33_Witness ==
    /\ exporter.phase = "done"
    /\ \E c \in exporter.exportedConcepts \ exporter.concepts :
          /\ objects[c].implementation = "Set"
          /\ \E b \in exporter.concepts : c \in objects[b].members

\* C34: every triple of referenceTriples is without None and is the triple
\* of one connection of one Concept that exportSemanticData has popped,
\* with the reference of that Concept for None and the reference that
\* referenceByConcept holds for every Concept of the connection.
C34_TripleShape ==
    \A t \in exporter.referenceTriples :
        /\ \A k \in 1..3 : t[k] # NoReference
        /\ \E c \in exporter.exportedConcepts \cup ({exporter.concept} \ {NoConcept}) :
              /\ ~HasDataCodec(objects[c].implementation)
              /\ \E x \in SetGetConnectionsFromContent(objects, objects[c]) :
                    /\ \A k \in 1..3 : x[k] # NoConcept => x[k] \in DOMAIN exporter.referenceByConcept
                    /\ t = ReferenceTriple(exporter.referenceByConcept, c, x)

\* exportSemanticData has returned triples of two SetConcepts, one of which
\* is the object of a triple of the other.
C34_Witness ==
    /\ exporter.phase = "done"
    /\ \E t \in exporter.referenceTriples, u \in exporter.referenceTriples :
          /\ t[3] = u[1]
          /\ t[1] # u[1]

\* The references of the Concepts exported by their byte data.
ByteDataReferences ==
    {exporter.referenceByConcept[c] :
        c \in {b \in exporter.exportedConcepts : HasDataCodec(objects[b].implementation)}}

\* C35: a Concept of an implementation with getDataFromContent, also one
\* with getConnectionsFromContent as well, is exported as its byte data
\* only: byteDataInfoByReference has the implementation and the data of the
\* content under the reference of the Concept and under no other reference,
\* no triple has that reference for None, and a Concept gets a reference
\* only as one of the Concepts given or as an element of a connection of a
\* Concept exported by its connections.
C35_ByteDataLeaves ==
    /\ \A c \in exporter.exportedConcepts :
          HasDataCodec(objects[c].implementation)
             => /\ exporter.referenceByConcept[c] \in DOMAIN exporter.byteDataInfoByReference
                /\ exporter.byteDataInfoByReference[exporter.referenceByConcept[c]]
                      = [implementation |-> objects[c].implementation,
                         data |-> GetDataFromContent(objects[c])]
                /\ \A b \in exporter.exportedConcepts :
                      exporter.referenceByConcept[b] = exporter.referenceByConcept[c] => b = c
                /\ \A t \in exporter.referenceTriples : t[1] # exporter.referenceByConcept[c]
    /\ DOMAIN exporter.byteDataInfoByReference = ByteDataReferences
    /\ \A m \in DOMAIN exporter.referenceByConcept :
          \/ m \in exporter.concepts
          \/ \E c \in exporter.exportedConcepts \cup ({exporter.concept} \ {NoConcept}) :
                /\ ~HasDataCodec(objects[c].implementation)
                /\ \E x \in SetGetConnectionsFromContent(objects, objects[c]) :
                      \E k \in 1..3 : x[k] = m

\* exportSemanticData has returned after exporting a Concept of the
\* implementation with both pairs of functions, whose member has no
\* reference.
C35_Witness ==
    /\ exporter.phase = "done"
    /\ exporter.referenceTriples = {}
    /\ \E c \in exporter.exportedConcepts :
          /\ objects[c].implementation = "CodedSet"
          /\ \E m \in objects[c].members : m \notin DOMAIN exporter.referenceByConcept

\* A step of exportSemanticData names each Concept once and pops it once:
\* a reference given stays, the nameConvention is called once for every
\* Concept that gets a reference, a Concept enters conceptsToExport only
\* when it gets its reference, and a Concept popped has not been popped
\* before and does not come back.
NamedAndPoppedOnce ==
    /\ \A c \in DOMAIN exporter.referenceByConcept :
          /\ c \in DOMAIN exporter'.referenceByConcept
          /\ exporter'.referenceByConcept[c] = exporter.referenceByConcept[c]
    /\ exporter'.counter - exporter.counter
          = Cardinality(DOMAIN exporter'.referenceByConcept \ DOMAIN exporter.referenceByConcept)
    /\ \A b \in DOMAIN exporter'.referenceByConcept, c \in DOMAIN exporter'.referenceByConcept :
          exporter'.referenceByConcept[b] = exporter'.referenceByConcept[c] => b = c
    /\ (exporter'.conceptsToExport \ exporter.conceptsToExport)
          \subseteq (DOMAIN exporter'.referenceByConcept \ DOMAIN exporter.referenceByConcept)
    /\ \A c \in exporter.conceptsToExport \ exporter'.conceptsToExport :
          /\ c \notin exporter.exportedConcepts
          /\ c # exporter.concept
          /\ c \in exporter'.exportedConcepts \cup {exporter'.concept}
    /\ exporter.exportedConcepts \subseteq exporter'.exportedConcepts
    /\ exporter'.conceptsToExport \cap (exporter'.exportedConcepts \cup {exporter'.concept}) = {}

\* C36: in exportSemanticData every Concept gets one reference, by one call
\* of the nameConvention, and is popped from conceptsToExport and exported
\* once, also when several connections lead to it or when it is one of the
\* Concepts given and an element of a connection.
C36_ExportedOnce ==
    [][exporter.phase = "run" => NamedAndPoppedOnce]_vars

\* exportSemanticData has returned after exporting two of the Concepts
\* given, one of which is a member of the other, both with a connection to
\* the same predicate and number Concepts.
C36_Witness ==
    /\ exporter.phase = "done"
    /\ \E b \in exporter.concepts, c \in exporter.concepts :
          /\ objects[b].implementation = "Set"
          /\ objects[c].implementation = "Set"
          /\ c \in objects[b].members
          /\ {b, c} \subseteq exporter.exportedConcepts
    /\ exporter.counter = Cardinality(exporter.exportedConcepts)

----------------------------------------------------------------------------
(* Properties of the loop of importSemanticData.                            *)

\* The step is one turn of the loop of lines 247-268.
Attempt ==
    /\ importer.phase = "loop"
    /\ importer'.phase \in {"loop", "raised"}
    /\ importer' # importer

\* The unimported references that some triple has together with r.
ConnectedReferences(imp, r) ==
    {q \in imp.unimportedReferences :
        \E t \in imp.triples : r \in {t[1], t[2], t[3]} /\ q \in {t[1], t[2], t[3]}}

\* C37: when the attempt on a reference succeeds, the reference is no
\* longer unimported and every reference that is still unimported and
\* occurs in a triple together with it is put into untestedReferences;
\* when the attempt ends with NotSufficient, the reference stays unimported
\* and nothing is put into untestedReferences.
C37_RequeueRule ==
    [][Attempt =>
          /\ importer'.reference \in importer.untestedReferences
          /\ importer'.outcome = "Resolved" =>
                /\ importer'.reference \in DOMAIN importer'.conceptsByReference
                /\ importer'.reference \notin importer'.unimportedReferences
                /\ importer'.untestedReferences
                      = (importer.untestedReferences \ {importer'.reference})
                           \cup ConnectedReferences(importer', importer'.reference)
          /\ importer'.outcome = "NotSufficient" =>
                /\ importer'.reference \in importer'.unimportedReferences
                /\ importer'.untestedReferences
                      = importer.untestedReferences \ {importer'.reference}]_vars

\* An attempt has succeeded and has put a reference back that had been
\* tested before, as the object of a triple of that reference.
C37_Witness ==
    /\ importer.phase = "loop"
    /\ importer.outcome = "Resolved"
    /\ \E q \in importer.untestedReferences \cap importer.tested :
          \E t \in importer.triples : t[1] = q /\ t[3] = importer.reference

\* The connection of the triple t with None at position k and the Concepts
\* of the other two references.
Template(byReference, t, k) ==
    <<IF k = 1 THEN NoConcept ELSE byReference[t[1]],
      IF k = 2 THEN NoConcept ELSE byReference[t[2]],
      IF k = 3 THEN NoConcept ELSE byReference[t[3]]>>

\* C38: the connections given to the resolver for a reference are, for
\* every triple and every position at which the triple has the reference,
\* the triple with None at that position and the Concepts of the other two
\* references, when both of these have a Concept; a triple with a reference
\* without Concept at another position gives no connection.
C38_ConnectionTemplates ==
    [][Attempt =>
          importer'.semanticConnections
             = {Template(importer.conceptsByReference, y[1], y[2]) :
                   y \in {z \in importer.triples \X (1..3) :
                             /\ z[1][z[2]] = importer'.reference
                             /\ \A j \in (1..3) \ {z[2]} :
                                   z[1][j] \in DOMAIN importer.conceptsByReference}}]_vars

\* An attempt was made with a connection that has None as object, while
\* other triples of the reference gave no connection.
C38_Witness ==
    /\ importer.phase = "loop"
    /\ importer.reference # NoReference
    /\ \E x \in importer.semanticConnections : x[3] = NoConcept /\ x[1] # NoConcept
    /\ Cardinality(importer.semanticConnections)
          < Cardinality(SemanticConnectionReferences(importer.triples, importer.reference))

\* From the loop of line 247 on, every reference with byte data has the
\* Concept of its data in conceptsByReference.
ByteDataImported ==
    importer.phase \in {"loop", "done", "raised"}
       => \A r \in DOMAIN importer.bytes :
             /\ r \in DOMAIN importer.conceptsByReference
             /\ objects[importer.conceptsByReference[r]]
                   = GetContentFromData(importer.bytes[r].implementation, importer.bytes[r].data)

\* C39 as stated: every reference with byte data has the Concept of its
\* data in the result before the first attempt on a reference; it is never
\* in unimportedReferences or untestedReferences and is never given to the
\* resolver.
C39_Original ==
    /\ ByteDataImported
    /\ \A r \in DOMAIN importer.bytes :
          /\ r \notin importer.unimportedReferences
          /\ r \notin importer.untestedReferences
          /\ r \notin importer.tested

\* C39 as amended: every reference with byte data has the Concept of its
\* data in the result before the first attempt on a reference; from then on
\* it is not in unimportedReferences, and it is never in untestedReferences
\* and is never given to the resolver.
C39_ByteDataFirst ==
    /\ ByteDataImported
    /\ \A r \in DOMAIN importer.bytes :
          /\ importer.phase \in {"loop", "done", "raised"}
                => r \notin importer.unimportedReferences
          /\ r \notin importer.untestedReferences
          /\ r \notin importer.tested

\* The call has returned after attempts on references whose triples have
\* references with byte data, which were unimported when the call began.
C39_Witness ==
    /\ importer.phase = "done"
    /\ importer.reconstructed # {}
    /\ importer.tested # {}
    /\ DOMAIN importer.bytes \cap ReferencesOf(importer.triples) # {}
    /\ DOMAIN importer.bytes \ ReferencesOf(importer.triples) # {}

\* untestedReferences is a part of unimportedReferences, and no unimported
\* reference is a key of conceptsByReference.
Bookkeeping ==
    /\ importer.untestedReferences \subseteq importer.unimportedReferences
    /\ importer.unimportedReferences \cap DOMAIN importer.conceptsByReference = {}

\* An entry of conceptsByReference stays as it is while the call runs.
EntriesKept ==
    importer.phase # "none"
       => \A r \in DOMAIN importer.conceptsByReference :
             /\ r \in DOMAIN importer'.conceptsByReference
             /\ importer'.conceptsByReference[r] = importer.conceptsByReference[r]

\* C40: at every turn of the loops of importSemanticData,
\* untestedReferences is a part of unimportedReferences, no unimported
\* reference is a key of conceptsByReference, and an entry of
\* conceptsByReference is never replaced or removed.
C40_Bookkeeping ==
    /\ []Bookkeeping
    /\ [][EntriesKept]_vars

\* The loop is at a turn with an untested reference and an unimported
\* reference that is not untested, with Concepts for the references with
\* byte data.
C40_Witness ==
    /\ importer.phase = "loop"
    /\ importer.untestedReferences # {}
    /\ importer.unimportedReferences \ importer.untestedReferences # {}
    /\ importer.outcome = "NotSufficient"
    /\ DOMAIN importer.conceptsByReference = DOMAIN importer.bytes

====
